---- MODULE Spec2Model ----
(***************************************************************************)
(* focusmunk: the blocking decision engine of the browser extension.       *)
(*                                                                         *)
(* Two programs are modelled.                                              *)
(*   - The server-backed variant (extension/scripts/background.js): a      *)
(*     cached snapshot `config` of a server-owned policy, refreshed by     *)
(*     syncConfig, and the rule evaluator shouldBlock with its helpers.    *)
(*   - The schedule-based variant (unnamed/part_000): settings kept in     *)
(*     local storage and the evaluator shouldBlockUrl.                     *)
(*                                                                         *)
(* Conventions.                                                            *)
(*   - Times are milliseconds (Date.now()).  The value 0 stands for a      *)
(*     null/absent time: every place of the code that reads lastSyncTime   *)
(*     or disabledUntil tests it for truthiness first.                     *)
(*   - A URL or a pattern is a sequence of tokens (pieces of the string:   *)
(*     scheme, host, path, ...).  Lower maps a token to its lower case.    *)
(*   - Null is JavaScript's null for a string-valued variable, NoConfig    *)
(*     is a null snapshot.                                                 *)
(*   - chrome.storage.local applies its operations in the order they are   *)
(*     issued, so a write is modelled at the point of the call and a read  *)
(*     returns the contents at the point of the call.                      *)
(***************************************************************************)
EXTENDS Integers, Sequences, FiniteSets, Bags, TLC

VARIABLES
    apiUrl,         \* background.js:2
    configId,       \* background.js:3
    config,         \* background.js:4
    storageLoaded,  \* background.js:5
    lastSyncTime,   \* background.js:6
    storage,        \* chrome.storage.local: apiUrl, configId, config, lastSyncTime
    loadData,       \* result of the storage.get of loadFromStorage, in flight
    now,            \* Date.now()
    syncs,          \* bag of the suspended syncConfig invocations
    tabs,           \* tab id -> URL shown
    lookups,        \* secondary checks suspended at fetchYouTubeInfo
    outbox,         \* blockPage messages the content scripts have sent
    reply,          \* the reply sent by the step just taken, NoReply if none
    settings,       \* part_000: chrome.storage.local of the schedule variant
    schedTab,       \* part_000: URL shown by the tab handled by handleTab
    monitor         \* youtube-monitor.js:3-4 and the running checkUrl, per tab

vars == <<apiUrl, configId, config, storageLoaded, lastSyncTime, storage,
          loadData, now, syncs, tabs, lookups, outbox, reply, settings,
          schedTab, monitor>>

schedVars == <<settings, schedTab>>

----------------------------------------------------------------------------
(* Bounds of the model *)

\* number of clock ticks (of TickMs milliseconds) a behaviour may take
MaxTicks == 2

\* largest freeTimeRemaining (seconds) a server response carries
MaxRemaining == 2

\* syncConfig invocations that may be suspended at their fetch at once
MaxSyncs == 2

\* secondary checks that may be suspended at their lookup at once
MaxLookups == 1

----------------------------------------------------------------------------
(* Values *)

Null == "<null>"

Undefined == "<undefined>"

NoTime == 0

NoConfig == [isNull |-> TRUE]

\* milliseconds per second: the divisor of background.js:62 and :76
MsPerSecond == 1000

\* the clock advances in steps of half a second
TickMs == MsPerSecond \div 2

Times == {TickMs * k : k \in 1..(MaxTicks + 1)}

Max(a, b) == IF a >= b THEN a ELSE b

Range(s) == {s[i] : i \in 1..Len(s)}

----------------------------------------------------------------------------
(* Strings as token sequences *)

\* String.prototype.toLowerCase on one token
Lower(tok) ==
    CASE tok = "Example.com" -> "example.com"
      [] tok = "/Page"       -> "/page"
      [] tok = "Lecture"     -> "lecture"
      [] tok = "Jane"        -> "jane"
      [] tok = "Cats"        -> "cats"
      [] OTHER               -> tok

LowerSeq(s) == [i \in 1..Len(s) |-> Lower(s[i])]

\* String.prototype.startsWith
StartsWith(s, prefix) ==
    /\ Len(prefix) <= Len(s)
    /\ SubSeq(s, 1, Len(prefix)) = prefix

\* String.prototype.includes
Includes(s, part) ==
    \E i \in 1..(Len(s) + 1) :
        /\ i + Len(part) - 1 <= Len(s)
        /\ SubSeq(s, i, i + Len(part) - 1) = part

----------------------------------------------------------------------------
(* URLs *)

\* A URL is its four parts, each a token sequence; Str is the URL string.
Url(scheme, host, path, query) ==
    [scheme |-> scheme, host |-> host, path |-> path, query |-> query]

Str(u) == <<u.scheme>> \o u.host \o u.path \o u.query

\* new URL(url).hostname and .pathname
Hostname(u) == LowerSeq(u.host)

Pathname(u) == u.path

ExtensionId == "focusmunk-extension-id"

UNewTab    == Url("chrome://", <<"newtab">>, <<>>, <<>>)
UExtPage   == Url("chrome-extension://", <<ExtensionId>>, <<"/pages/settings.html">>, <<>>)
UFile      == Url("file://", <<>>, <<"/home/notes.html">>, <<>>)
UAbout     == Url("about:", <<>>, <<"blank">>, <<>>)
UExample   == Url("https://", <<"example.com">>, <<"/Page">>, <<>>)
UOther     == Url("https://", <<"other.com">>, <<"/">>, <<>>)
UBracket   == Url("https://", <<"other.com">>, <<"/", "[x">>, <<>>)
UYtHome    == Url("https://", <<"www.", "youtube.com">>, <<"/">>, <<>>)
UYtChannel == Url("https://", <<"youtube.com">>, <<"/@", "chan">>, <<>>)
UYtWatch   == Url("https://", <<"www.", "youtube.com">>, <<"/watch">>, <<"?v=1">>)
UYtShorts  == Url("https://", <<"youtube.com">>, <<"/shorts/", "x">>, <<>>)
UYtWatch2  == Url("https://", <<"www.", "youtube.com">>, <<"/watch">>, <<"?v=2">>)

\* the pages of the content platform among them
PlatformUrls == {UYtHome, UYtChannel, UYtWatch, UYtShorts}

\* the pages an in-page navigation of the platform leads to
MonitorUrls == {UYtHome, UYtShorts, UYtWatch, UYtWatch2}

\* URLs a tab can be navigated to
Urls == {UNewTab, UExtPage, UFile, UAbout, UExample, UOther, UBracket,
         UYtHome, UYtChannel, UYtWatch, UYtShorts}

\* encodeURIComponent on one token: ':' '/' '?' '=' '@' '[' are escaped
EncodeToken(tok) ==
    CASE tok = "https://"            -> "https%3A%2F%2F"
      [] tok = "file://"             -> "file%3A%2F%2F"
      [] tok = "about:"              -> "about%3A"
      [] tok = "/"                   -> "%2F"
      [] tok = "/Page"               -> "%2FPage"
      [] tok = "/watch"              -> "%2Fwatch"
      [] tok = "/@"                  -> "%2F%40"
      [] tok = "/shorts/"            -> "%2Fshorts%2F"
      [] tok = "/home/notes.html"    -> "%2Fhome%2Fnotes.html"
      [] tok = "?v=1"                -> "%3Fv%3D1"
      [] tok = "[x"                  -> "%5Bx"
      [] OTHER                       -> tok

encodeURIComponent(s) == [i \in 1..Len(s) |-> EncodeToken(s[i])]

\* background.js:171 blockedUrl
blockedUrl(u) ==
    Url("chrome-extension://", <<ExtensionId>>, <<"/pages/blocked.html">>,
        <<"?url=">> \o encodeURIComponent(Str(u)))

----------------------------------------------------------------------------
(* Allow-list patterns: new RegExp(pattern, 'i') on a small regex language  *)
(* "^" anchors at the start, "(www.)?" is an optional group, "[x" is an     *)
(* unterminated character class (the constructor throws), any other token   *)
(* is a literal.                                                            *)

PExample  == <<"^", "https://", "(www.)?", "Example.com">>
PWatch    == <<"youtube.com", "/watch">>
PInvalid  == <<"[x">>
PShorts   == <<"youtube.com", "/shorts/">>

RegexValid(p) == \A i \in 1..Len(p) : p[i] # "[x"

\* one literal of a pattern against one token, with or without the 'i' flag
SameToken(a, b, ignoreCase) ==
    IF ignoreCase THEN Lower(a) = Lower(b) ELSE a = b

\* the pattern from its element i on matches s from its token j on
RECURSIVE MatchHere(_, _, _, _, _)
MatchHere(p, i, s, j, ignoreCase) ==
    IF i > Len(p) THEN TRUE
    ELSE IF p[i] = "(www.)?"
         THEN \/ MatchHere(p, i + 1, s, j, ignoreCase)
              \/ /\ j <= Len(s)
                 /\ SameToken("www.", s[j], ignoreCase)
                 /\ MatchHere(p, i + 1, s, j + 1, ignoreCase)
         ELSE /\ j <= Len(s)
              /\ SameToken(p[i], s[j], ignoreCase)
              /\ MatchHere(p, i + 1, s, j + 1, ignoreCase)

\* RegExp.prototype.test of a pattern that compiles
RegexTest(p, s, ignoreCase) ==
    IF Len(p) > 0 /\ p[1] = "^"
    THEN MatchHere(p, 2, s, 1, ignoreCase)
    ELSE \E j \in 1..(Len(s) + 1) : MatchHere(p, 1, s, j, ignoreCase)

\* the callback of background.js:84-90
PatternMatches(pattern, url) ==
    IF RegexValid(pattern)
    THEN RegexTest(pattern, Str(url), TRUE)
    ELSE Includes(LowerSeq(Str(url)), LowerSeq(pattern))

----------------------------------------------------------------------------
(* Policy snapshots: the body of GET /config/{id}                          *)

Snapshot(en, wl, started, rem, dis, creators, keywords) ==
    [enabled            |-> en,
     whitelist          |-> wl,
     freeTimeStartedAt  |-> started,
     freeTimeRemaining  |-> rem,
     disabledUntil      |-> dis,
     youtubeCreators    |-> creators,
     youtubeKeywords    |-> keywords]

\* a session start as the server writes it; only its presence is ever read
SessionStart == "2026-01-01T09:00:00Z"

\* a temporary disable that ends at the second tick of the clock
DisableEnd == 2 * TickMs

Whitelists == {<<>>, <<PExample>>, <<PInvalid, PWatch>>}

\* entries of youtubeKeywords and an entry of youtubeCreators, as typed
KwLecture == <<"lecture">>
KwCats == <<"Cats">>
CrJane == <<"@", "Jane", "doe">>
\* a part of Jane Doe's handle, and an entry that is longer than her handle
CrPartial == <<"Jane">>
CrLong == <<"@", "Jane", "doe", "official">>

\* the pairs of youtubeCreators and youtubeKeywords in the snapshots
YoutubeLists ==
    {<<(<<>>), (<<>>)>>, <<(<<>>), <<KwLecture>>>>, <<(<<>>), <<KwCats>>>>,
     <<(<<CrJane>>), (<<>>)>>}

\* every snapshot the evaluator is checked on
AllSnapshots ==
    {Snapshot(en, wl, st, rem, dis, <<>>, <<>>) :
        en \in BOOLEAN, wl \in Whitelists,
        st \in {Null, Undefined, SessionStart},
        rem \in 0..MaxRemaining,
        dis \in {NoTime, DisableEnd}}

\* every snapshot the secondary check is checked on
VideoSnapshots ==
    {Snapshot(TRUE, wl, st, rem, dis, yt[1], yt[2]) :
        wl \in {<<>>, <<PInvalid, PWatch>>},
        st \in {Null, SessionStart},
        rem \in {0, MaxRemaining},
        dis \in {NoTime, DisableEnd},
        yt \in YoutubeLists}

\* JavaScript truthiness of a string-valued field
Truthy(x) == x \notin {Null, Undefined, ""}

----------------------------------------------------------------------------
(* background.js: Budget Tracker and Rule Evaluator.                       *)
(*                                                                         *)
(* The functions read the worker's globals and the clock.  Here they take  *)
(* them as the record g = [configId, config, lastSyncTime, now], so that a *)
(* handler can be followed across a step that assigns the globals.         *)
(* Seconds are carried in thousandths, so that                             *)
(* (Date.now() - lastSyncTime) / 1000 is exact.                            *)

GlobalsOf(id, cfg, last, t) ==
    [configId |-> id, config |-> cfg, lastSyncTime |-> last, now |-> t]

\* the globals as they are now
Globals == GlobalsOf(configId, config, lastSyncTime, now)

\* background.js:199 isTemporarilyDisabled
isTemporarilyDisabled(g) ==
    /\ g.config # NoConfig
    /\ g.config.disabledUntil # NoTime
    /\ g.now < g.config.disabledUntil

\* Faulty variants of isFreeTime: the temporary disable not consulted,
isFreeTime_noDisable(g) ==
    IF g.config = NoConfig THEN FALSE
    ELSE IF /\ g.config.freeTimeStartedAt # Null
            /\ g.config.freeTimeStartedAt # Undefined
    THEN LET serverRemaining == g.config.freeTimeRemaining * MsPerSecond
         IN  IF g.lastSyncTime # NoTime
             THEN serverRemaining - (g.now - g.lastSyncTime) > 0
             ELSE serverRemaining > 0
    ELSE FALSE

\* and a session with nothing left still counted as free time.
isFreeTime_zeroIsFree(g) ==
    IF g.config = NoConfig THEN FALSE
    ELSE IF g.config.disabledUntil # NoTime /\ g.now < g.config.disabledUntil
    THEN TRUE
    ELSE IF /\ g.config.freeTimeStartedAt # Null
            /\ g.config.freeTimeStartedAt # Undefined
    THEN LET serverRemaining == g.config.freeTimeRemaining * MsPerSecond
         IN  IF g.lastSyncTime # NoTime
             THEN serverRemaining - (g.now - g.lastSyncTime) >= 0
             ELSE serverRemaining >= 0
    ELSE FALSE

\* background.js:49 isFreeTime
isFreeTime(g) ==
    IF g.config = NoConfig THEN FALSE
    ELSE IF g.config.disabledUntil # NoTime /\ g.now < g.config.disabledUntil
    THEN TRUE
    ELSE IF /\ g.config.freeTimeStartedAt # Null
            /\ g.config.freeTimeStartedAt # Undefined
    THEN LET serverRemaining == g.config.freeTimeRemaining * MsPerSecond
         IN  IF g.lastSyncTime # NoTime
             THEN LET secondsSinceSync == g.now - g.lastSyncTime
                      localRemaining == serverRemaining - secondsSinceSync
                  IN  localRemaining > 0
             ELSE serverRemaining > 0
    ELSE FALSE

\* Faulty variants of getLocalRemainingSeconds: the floor at 0 left out,
getLocalRemainingSeconds_noFloor(g) ==
    IF g.config = NoConfig THEN 0
    ELSE LET serverRemaining == g.config.freeTimeRemaining * MsPerSecond
         IN  IF g.lastSyncTime # NoTime /\ Truthy(g.config.freeTimeStartedAt)
             THEN serverRemaining - (g.now - g.lastSyncTime)
             ELSE serverRemaining

\* and the time since the sync added instead of subtracted.
getLocalRemainingSeconds_wrongSign(g) ==
    IF g.config = NoConfig THEN 0
    ELSE LET serverRemaining == g.config.freeTimeRemaining * MsPerSecond
         IN  IF g.lastSyncTime # NoTime /\ Truthy(g.config.freeTimeStartedAt)
             THEN Max(0, serverRemaining + (g.now - g.lastSyncTime))
             ELSE serverRemaining

\* background.js:72 getLocalRemainingSeconds
getLocalRemainingSeconds(g) ==
    IF g.config = NoConfig THEN 0
    ELSE LET serverRemaining == g.config.freeTimeRemaining * MsPerSecond
         IN  IF g.lastSyncTime # NoTime /\ Truthy(g.config.freeTimeStartedAt)
             THEN LET secondsSinceSync == g.now - g.lastSyncTime
                  IN  Max(0, serverRemaining - secondsSinceSync)
             ELSE serverRemaining

\* background.js:82 matchesWhitelist
matchesWhitelist(g, url) ==
    IF g.config = NoConfig THEN FALSE
    ELSE \E i \in 1..Len(g.config.whitelist) :
            PatternMatches(g.config.whitelist[i], url)

\* background.js:93 isYouTubeVideo
isYouTubeVideo(url) ==
    /\ Hostname(url) \in {<<"www.", "youtube.com">>, <<"youtube.com">>}
    /\ Pathname(url) = <<"/watch">>

\* background.js:100 isYouTubeAllowedPage
isYouTubeAllowedPage(url) ==
    IF Hostname(url) \notin {<<"www.", "youtube.com">>, <<"youtube.com">>}
    THEN FALSE
    ELSE IF Pathname(url) \in {<<"/">>, <<>>, <<"/results">>} THEN TRUE
    ELSE IF \/ StartsWith(Pathname(url), <<"/@">>)
            \/ StartsWith(Pathname(url), <<"/c/">>)
            \/ StartsWith(Pathname(url), <<"/channel/">>)
            \/ StartsWith(Pathname(url), <<"/user/">>) THEN TRUE
    ELSE FALSE

\* a test that knows the browser's pages and not the extension's
isChromeUrl_browserOnly(url) == StartsWith(Str(url), <<"chrome://">>)

\* background.js:112 and :365, the test for the browser's own pages
isChromeUrl(url) ==
    \/ StartsWith(Str(url), <<"chrome://">>)
    \/ StartsWith(Str(url), <<"chrome-extension://">>)

\* Faulty variants of shouldBlock, each a fault one of the properties below
\* must detect: the test of configId left out,
shouldBlock_noIdentityTest(g, url) ==
    IF isChromeUrl(url) THEN FALSE
    ELSE IF isFreeTime(g) THEN FALSE
    ELSE IF matchesWhitelist(g, url) THEN FALSE
    ELSE IF isYouTubeAllowedPage(url) THEN FALSE
    ELSE IF isYouTubeVideo(url) THEN FALSE
    ELSE TRUE

\* the test of the browser's own pages made after the test of configId,
shouldBlock_identityTestFirst(g, url) ==
    IF g.configId = Null THEN TRUE
    ELSE IF isChromeUrl(url) THEN FALSE
    ELSE IF isFreeTime(g) THEN FALSE
    ELSE IF matchesWhitelist(g, url) THEN FALSE
    ELSE IF isYouTubeAllowedPage(url) THEN FALSE
    ELSE IF isYouTubeVideo(url) THEN FALSE
    ELSE TRUE

\* and the allow-list consulted for the content platform's pages only.
shouldBlock_allowListForVideosOnly(g, url) ==
    IF isChromeUrl(url) THEN FALSE
    ELSE IF g.configId = Null THEN TRUE
    ELSE IF isFreeTime(g) THEN FALSE
    ELSE IF isYouTubeAllowedPage(url) THEN FALSE
    ELSE IF isYouTubeVideo(url) THEN FALSE
    ELSE TRUE

\* and a shouldBlock that keeps no exception for the watch page.
shouldBlock_blocksVideos(g, url) ==
    IF isChromeUrl(url) THEN FALSE
    ELSE IF g.configId = Null THEN TRUE
    ELSE IF isFreeTime(g) THEN FALSE
    ELSE IF matchesWhitelist(g, url) THEN FALSE
    ELSE IF isYouTubeAllowedPage(url) THEN FALSE
    ELSE TRUE

\* background.js:111 shouldBlock
shouldBlock(g, url) ==
    IF isChromeUrl(url) THEN FALSE
    ELSE IF g.configId = Null THEN TRUE
    ELSE IF isFreeTime(g) THEN FALSE
    ELSE IF matchesWhitelist(g, url) THEN FALSE
    ELSE IF isYouTubeAllowedPage(url) THEN FALSE
    ELSE IF isYouTubeVideo(url) THEN FALSE
    ELSE TRUE

----------------------------------------------------------------------------
(* background.js: the secondary check of a watch page                      *)

\* what GET /youtube-info answers; NoInfo is the null of fetchYouTubeInfo
\* (a network error or a response that is not OK, background.js:133-136)
NoInfo == [isNull |-> TRUE]

Info(title, authorName, authorUrl) ==
    [title |-> title, authorName |-> authorName, authorUrl |-> authorUrl]

InfoLecture ==
    Info(<<"Algebra", " ", "Lecture", " ", "1">>, <<"Jane", " ", "Doe">>,
         <<"https://", "www.", "youtube.com/", "@", "jane", "doe">>)

InfoOther ==
    Info(<<"Funny", " ", "cats">>, <<"Cat", " ", "Channel">>,
         <<"https://", "www.", "youtube.com/", "channel/", "UC123", "/", "videos">>)

InfoCats ==
    Info(<<"Cats", " ", "Lecture">>, <<"Cat", " ", "Channel">>,
         <<"https://", "www.", "youtube.com/", "channel/", "UC123">>)

Infos == {InfoLecture, InfoOther, InfoCats}

\* s.replace(/^prefix/, '') for a prefix that is one token
StripPrefix(s, tok) == IF Len(s) > 0 /\ s[1] = tok THEN Tail(s) ELSE s

\* s.split('/')[0]: the tokens before the first token that holds a '/'
HasSlash(tok) == tok \in {"/", "/c/", "/channel/", "/user/", "c/", "channel/",
                          "user/", "youtube.com/", "https://"}

RECURSIVE BeforeSlash(_)
BeforeSlash(s) ==
    IF s = <<>> \/ HasSlash(s[1]) THEN <<>> ELSE <<s[1]>> \o BeforeSlash(Tail(s))

\* background.js:139 normalizeCreator
normalizeCreator(input) ==
    IF input = <<>> THEN <<>>
    ELSE LET s1 == LowerSeq(input)
             s2 == StripPrefix(s1, "https://")
             s3 == StripPrefix(s2, "www.")
             s4 == StripPrefix(s3, "youtube.com/")
             s5 == StripPrefix(s4, "@")
             s6 == IF Len(s5) > 0 /\ s5[1] \in {"/c/", "/channel/", "/user/"}
                   THEN Tail(s5) ELSE s5
             s7 == IF Len(s6) > 0 /\ s6[1] \in {"c/", "channel/", "user/"}
                   THEN Tail(s6) ELSE s6
         IN  BeforeSlash(s7)

\* a creator check that also takes an entry that contains the author
youtubeCreatorAllowed_bothWays(g, authorName, authorUrl) ==
    IF g.config = NoConfig \/ g.config.youtubeCreators = <<>> THEN FALSE
    ELSE \E i \in 1..Len(g.config.youtubeCreators) :
            LET normalizedCreator == normalizeCreator(g.config.youtubeCreators[i])
            IN  \/ Includes(normalizeCreator(authorName), normalizedCreator)
                \/ Includes(normalizeCreator(authorUrl), normalizedCreator)
                \/ Includes(normalizedCreator, normalizeCreator(authorName))
                \/ Includes(normalizedCreator, normalizeCreator(authorUrl))

\* background.js:152 youtubeCreatorAllowed
youtubeCreatorAllowed(g, authorName, authorUrl) ==
    IF g.config = NoConfig \/ g.config.youtubeCreators = <<>> THEN FALSE
    ELSE LET normalizedAuthorName == normalizeCreator(authorName)
             normalizedAuthorUrl == normalizeCreator(authorUrl)
         IN  \E i \in 1..Len(g.config.youtubeCreators) :
                LET normalizedCreator == normalizeCreator(g.config.youtubeCreators[i])
                IN  \/ normalizedAuthorName = normalizedCreator
                    \/ normalizedAuthorUrl = normalizedCreator
                    \/ Includes(normalizedAuthorName, normalizedCreator)
                    \/ Includes(normalizedAuthorUrl, normalizedCreator)

\* a keyword test that compares title and entries as they are written
youtubeVideoAllowed_caseSensitive(g, title) ==
    IF g.config = NoConfig \/ g.config.youtubeKeywords = <<>> THEN FALSE
    ELSE \E i \in 1..Len(g.config.youtubeKeywords) :
            Includes(title, g.config.youtubeKeywords[i])

\* background.js:165 youtubeVideoAllowed
youtubeVideoAllowed(g, title) ==
    IF g.config = NoConfig \/ g.config.youtubeKeywords = <<>> THEN FALSE
    ELSE LET t == LowerSeq(title)
         IN  \E i \in 1..Len(g.config.youtubeKeywords) :
                Includes(t, LowerSeq(g.config.youtubeKeywords[i]))

\* a verdict that lets the video through when the lookup has failed
videoBlocked_failOpen(g, info) ==
    IF info = NoInfo THEN FALSE
    ELSE /\ ~youtubeCreatorAllowed(g, info.authorName, info.authorUrl)
         /\ ~youtubeVideoAllowed(g, info.title)

\* background.js:373-377, the verdict of checkOpenTabs on a lookup's result
videoBlocked(g, info) ==
    IF info = NoInfo THEN TRUE
    ELSE /\ ~youtubeCreatorAllowed(g, info.authorName, info.authorUrl)
         /\ ~youtubeVideoAllowed(g, info.title)

\* background.js:361-379, the loop of checkOpenTabs over the tabs it queried,
\* run until it ends or suspends at a lookup.  list holds the tabs as the
\* query returned them, tb is the tabs' state so far; the result is the
\* tabs' state and the lookup the loop is suspended at, if any.
RECURSIVE checkTabsLoop(_, _, _)
checkTabsLoop(g, list, tb) ==
    IF list = <<>> THEN [tabs |-> tb, pending |-> <<>>]
    ELSE LET tab == list[1]
         IN  IF isChromeUrl(tab.url) THEN checkTabsLoop(g, Tail(list), tb)
             ELSE IF shouldBlock(g, tab.url)
             THEN checkTabsLoop(g, Tail(list),
                                [tb EXCEPT ![tab.id] = blockedUrl(tab.url)])
             ELSE IF isYouTubeVideo(tab.url)
             THEN [tabs |-> tb,
                   pending |-> <<[kind |-> "checkOpenTabs", tab |-> tab.id,
                                  url |-> tab.url, rest |-> Tail(list)]>>]
             ELSE checkTabsLoop(g, Tail(list), tb)

\* chrome.tabs.query({}): the tabs of S as tb shows them, in some order
RECURSIVE queryTabs(_, _)
queryTabs(S, tb) ==
    IF S = {} THEN <<>>
    ELSE LET t == CHOOSE x \in S : TRUE
         IN  <<[id |-> t, url |-> tb[t]]>> \o queryTabs(S \ {t}, tb)

\* background.js:356 checkOpenTabs, from its call to its end or first lookup
checkOpenTabs(g, tb) ==
    IF g.configId = Null \/ isFreeTime(g) THEN [tabs |-> tb, pending |-> <<>>]
    ELSE checkTabsLoop(g, queryTabs(DOMAIN tb, tb), tb)

\* background.js:275 onMessage checkYouTube, up to its reply or its lookup
checkYouTubeEntry(g, url) ==
    IF g.configId = Null
    THEN [type |-> "checkYouTube", shouldCheck |-> TRUE, allowed |-> FALSE,
          reason |-> "Extension not configured", url |-> url]
    ELSE IF isFreeTime(g)
    THEN [type |-> "checkYouTube", shouldCheck |-> FALSE, url |-> url]
    ELSE IF matchesWhitelist(g, url)
    THEN [type |-> "checkYouTube", shouldCheck |-> FALSE, url |-> url]
    ELSE [type |-> "lookup"]

\* background.js:300-322, the reply of checkYouTube once its lookup is done
checkYouTubeVerdict(g, url, info) ==
    IF info = NoInfo
    THEN [type |-> "checkYouTube", shouldCheck |-> TRUE, allowed |-> FALSE,
          reason |-> "Could not verify video", url |-> url]
    ELSE IF youtubeCreatorAllowed(g, info.authorName, info.authorUrl)
    THEN [type |-> "checkYouTube", shouldCheck |-> TRUE, allowed |-> TRUE, url |-> url]
    ELSE IF youtubeVideoAllowed(g, info.title)
    THEN [type |-> "checkYouTube", shouldCheck |-> TRUE, allowed |-> TRUE, url |-> url]
    ELSE [type |-> "checkYouTube", shouldCheck |-> TRUE, allowed |-> FALSE,
          reason |-> "Video not from allowed creator or matching keywords",
          url |-> url]

\* background.js:235-243, the reply to getState
getStateReply(g, api) ==
    [type |-> "getState",
     apiUrl |-> api,
     configId |-> g.configId,
     config |-> g.config,
     isFreeTime |-> isFreeTime(g),
     hasConfig |-> g.configId # Null,
     isTemporarilyDisabled |-> isTemporarilyDisabled(g),
     localRemainingSeconds |-> getLocalRemainingSeconds(g)]

----------------------------------------------------------------------------
(* unnamed/part_000: the schedule-based variant                            *)
(*                                                                         *)
(* The local time of day "HH:MM" is the number 100 * HH + MM: the strings  *)
(* are zero-padded, so their order is the order of these numbers.  The     *)
(* clock of the model starts on a Sunday at 23:59:59, so that the minute   *)
(* and the day change at the first tick.                                   *)

Days == 0..6

\* new Date().getDay()
getDay(t) == IF t < 2 * TickMs THEN 0 ELSE 1

\* the "HH:MM" of part_000:22-24
currentHHMM(t) == IF t < 2 * TickMs THEN 2359 ELSE 0

Range_(start, end) == [start |-> start, end |-> end]

NoSchedule == [d \in Days |-> <<>>]

\* focus time all day, every day
AlwaysSchedule == [d \in Days |-> <<Range_(0, 2359)>>]

\* focus time on Sunday night, in a range that crosses midnight
NightSchedule == [d \in Days |-> IF d = 0 THEN <<Range_(2200, 200)>> ELSE <<>>]

Schedules == {NoSchedule, AlwaysSchedule, NightSchedule}

\* part_000:4 DEFAULT_SETTINGS
DEFAULT_SETTINGS ==
    [enabled |-> TRUE, whitelist |-> <<PExample>>, schedules |-> NoSchedule,
     manualDisabledUntil |-> NoTime]

\* part_000:19 timeInRangeNow
timeInRangeNow(ranges, t) ==
    LET cur == currentHHMM(t)
    IN  \E i \in 1..Len(ranges) :
            LET r == ranges[i]
            IN  \/ r.start <= cur /\ cur < r.end
                \/ r.start > r.end /\ (cur >= r.start \/ cur <= r.end)

\* part_000:36 isSpecialUrl
isSpecialUrl(url) ==
    \/ StartsWith(Str(url), <<"chrome://">>)
    \/ StartsWith(Str(url), <<"chrome-extension://">>)
    \/ StartsWith(Str(url), <<"file://">>)
    \/ StartsWith(Str(url), <<"about:">>)

\* part_000:41 compileRegexes: a pattern that does not compile is left out
compileRegexes(list) == SelectSeq(list, RegexValid)

\* part_000:53 shouldBlockUrl, with st the settings read and t the time
shouldBlockUrl(url, st, t) ==
    IF ~st.enabled THEN FALSE
    ELSE IF st.manualDisabledUntil # NoTime /\ t < st.manualDisabledUntil THEN FALSE
    ELSE IF isSpecialUrl(url) THEN FALSE
    ELSE LET dayRanges == st.schedules[getDay(t)]
             inSchedule == timeInRangeNow(dayRanges, t)
             regexes == compileRegexes(st.whitelist)
         IN  IF ~inSchedule THEN FALSE
             ELSE IF \E i \in 1..Len(regexes) : RegexTest(regexes[i], Str(url), FALSE)
             THEN FALSE
             ELSE TRUE

\* part_000:102, the block page for url
blockPage(url) ==
    Url("chrome-extension://", <<ExtensionId>>, <<"/block.html">>,
        <<"?blocked=">> \o encodeURIComponent(Str(url)))

\* part_000:98 url.includes("block.html")
includesBlockHtml(url) == "/block.html" \in Range(Str(url))

----------------------------------------------------------------------------
(* background.js: the state machine                                        *)

Tabs == {"t1"}

Ids == {"id1", "id2"}

ApiUrls == {"https://api.example"}

\* the snapshots the server answers with: one with an allow-list and a
\* temporary disable, one with an open session
ServerSnapshots ==
    {Snapshot(TRUE, <<PExample>>, Null,         2, DisableEnd, <<>>, <<>>),
     Snapshot(TRUE, <<>>,         SessionStart, 1, NoTime,     <<>>, <<>>)}

EmptyStorage ==
    [apiUrl |-> Null, configId |-> Null, config |-> NoConfig, lastSyncTime |-> NoTime]

NoLoad == [pending |-> FALSE]

NoReply == [type |-> "none"]

\* youtube-monitor.js:3-4, :34-75: the state of the content script in a tab.
\* lastUrl is its variable; stage is where its checkUrl waits ("idle" when
\* checkingInProgress is false, else the message it waits the reply of);
\* url is the argument of the last checkUrl that passed the guard
Monitor(lastUrl, stage, url) == [lastUrl |-> lastUrl, stage |-> stage, url |-> url]

\* no URL yet
NoUrl == [isNull |-> TRUE]

\* no content script is modelled: the pages send their messages at any time
NoMonitor == [t \in Tabs |-> Monitor(NoUrl, "idle", NoUrl)]

RemoveAt(seq, i) == SubSeq(seq, 1, i - 1) \o SubSeq(seq, i + 1, Len(seq))

\* The service worker has just been started on a fresh profile: the script
\* has run to its end, the storage.get of loadFromStorage is in flight.
Init ==
    /\ apiUrl = Null
    /\ configId = Null
    /\ config = NoConfig
    /\ storageLoaded = FALSE
    /\ lastSyncTime = NoTime
    /\ storage = EmptyStorage
    /\ loadData = EmptyStorage
    /\ now = TickMs
    /\ syncs = EmptyBag
    /\ tabs = [t \in Tabs |-> UNewTab]
    /\ lookups = <<>>
    /\ outbox = {}
    /\ reply = NoReply
    /\ settings = DEFAULT_SETTINGS
    /\ schedTab = UNewTab
    /\ monitor = NoMonitor

\* Date.now() advances
Tick ==
    /\ now + TickMs \in Times
    /\ now' = now + TickMs
    /\ reply' = NoReply
    /\ UNCHANGED <<apiUrl, configId, config, storageLoaded, lastSyncTime, storage,
                   loadData, syncs, tabs, lookups, outbox, schedVars, monitor>>

\* a start that goes on to fetch the snapshot once the load is done
loadFromStorage_thenSync ==
    /\ ~storageLoaded
    /\ loadData # NoLoad
    /\ apiUrl' = loadData.apiUrl
    /\ configId' = loadData.configId
    /\ config' = loadData.config
    /\ lastSyncTime' = loadData.lastSyncTime
    /\ storageLoaded' = TRUE
    /\ loadData' = NoLoad
    /\ reply' = NoReply
    /\ syncs' = IF loadData.configId # Null /\ loadData.apiUrl # Null
                THEN syncs (+) SetToBag({[id |-> loadData.configId,
                                          caller |-> "alarm"]})
                ELSE syncs
    /\ UNCHANGED <<storage, now, tabs, lookups, outbox, schedVars, monitor>>

\* a load that takes the start of the worker as the time of the last sync
loadFromStorage_resetsSyncTime ==
    /\ ~storageLoaded
    /\ loadData # NoLoad
    /\ apiUrl' = loadData.apiUrl
    /\ configId' = loadData.configId
    /\ config' = loadData.config
    /\ lastSyncTime' = IF loadData.config = NoConfig THEN loadData.lastSyncTime ELSE now
    /\ storageLoaded' = TRUE
    /\ loadData' = NoLoad
    /\ reply' = NoReply
    /\ UNCHANGED <<storage, now, syncs, tabs, lookups, outbox, schedVars, monitor>>

\* background.js:9 loadFromStorage, the part after its await
loadFromStorage ==
    /\ ~storageLoaded
    /\ loadData # NoLoad
    /\ apiUrl' = loadData.apiUrl
    /\ configId' = loadData.configId
    /\ config' = loadData.config
    /\ lastSyncTime' = loadData.lastSyncTime
    /\ storageLoaded' = TRUE
    /\ loadData' = NoLoad
    /\ reply' = NoReply
    /\ UNCHANGED <<storage, now, syncs, tabs, lookups, outbox, schedVars, monitor>>

\* The browser stops the service worker and starts it again for the next
\* event: the globals are initialised again (background.js:2-6), every
\* suspended invocation is gone, loadFromStorage is called (background.js:21).
Restart ==
    /\ apiUrl' = Null
    /\ configId' = Null
    /\ config' = NoConfig
    /\ storageLoaded' = FALSE
    /\ lastSyncTime' = NoTime
    /\ loadData' = storage
    /\ syncs' = EmptyBag
    /\ lookups' = <<>>
    /\ reply' = NoReply
    /\ UNCHANGED <<storage, now, tabs, outbox, schedVars, monitor>>

\* a guard of syncConfig that asks for the server address only
canSync_ignoresIdentity(id, api) == api # Null

\* background.js:25, the guard of syncConfig
canSync(id, api) == id # Null /\ api # Null

\* background.js:24-27 syncConfig up to its fetch, called by `caller`
syncsAfterCall(id, api, caller) ==
    IF canSync(id, api)
    THEN syncs (+) SetToBag({[id |-> id, caller |-> caller]})
    ELSE syncs

\* background.js:256 onMessage setApiUrl
setApiUrl(a) ==
    /\ apiUrl' = a
    /\ storage' = [storage EXCEPT !.apiUrl = a]
    /\ reply' = [type |-> "setApiUrl", success |-> TRUE]
    /\ UNCHANGED <<configId, config, storageLoaded, lastSyncTime, loadData, now,
                   syncs, tabs, lookups, outbox, schedVars, monitor>>

\* background.js:326 onMessage clearConfig
clearConfig ==
    /\ configId' = Null
    /\ config' = NoConfig
    /\ storage' = [storage EXCEPT !.configId = Null, !.config = NoConfig]
    /\ reply' = [type |-> "clearConfig", success |-> TRUE]
    /\ UNCHANGED <<apiUrl, storageLoaded, lastSyncTime, loadData, now, syncs,
                   tabs, lookups, outbox, schedVars, monitor>>

\* A faulty getState: the drained budget is written back into the snapshot.
getState_drainsInPlace ==
    /\ storageLoaded
    /\ reply' = getStateReply(Globals, apiUrl)
    /\ config' = IF config = NoConfig THEN config
                 ELSE [config EXCEPT !.freeTimeRemaining =
                          getLocalRemainingSeconds(Globals) \div MsPerSecond]
    /\ UNCHANGED <<apiUrl, configId, storageLoaded, lastSyncTime, storage,
                   loadData, now, syncs, tabs, lookups, outbox, schedVars, monitor>>

\* background.js:233 onMessage getState
getState ==
    /\ storageLoaded
    /\ reply' = getStateReply(Globals, apiUrl)
    /\ UNCHANGED <<apiUrl, configId, config, storageLoaded, lastSyncTime, storage,
                   loadData, now, syncs, tabs, lookups, outbox, schedVars, monitor>>

\* a hook that decides without waiting for storageReady
onBeforeNavigate_noAwait(t, url) ==
    /\ tabs' = [tabs EXCEPT ![t] = IF shouldBlock(Globals, url)
                                   THEN blockedUrl(url) ELSE url]
    /\ reply' = NoReply
    /\ UNCHANGED <<apiUrl, configId, config, storageLoaded, lastSyncTime, storage,
                   loadData, now, syncs, lookups, outbox, schedVars, monitor>>

\* background.js:223 onBeforeNavigate listener, for the main frame of tab t
onBeforeNavigate(t, url) ==
    /\ storageLoaded
    /\ tabs' = [tabs EXCEPT ![t] = IF shouldBlock(Globals, url)
                                   THEN blockedUrl(url) ELSE url]
    /\ reply' = NoReply
    /\ UNCHANGED <<apiUrl, configId, config, storageLoaded, lastSyncTime, storage,
                   loadData, now, syncs, lookups, outbox, schedVars, monitor>>

\* background.js:350-351 onAlarm 'checkTabs'
checkTabsAlarm ==
    /\ Len(lookups) + Len(checkOpenTabs(Globals, tabs).pending) <= MaxLookups
    /\ tabs' = checkOpenTabs(Globals, tabs).tabs
    /\ lookups' = lookups \o checkOpenTabs(Globals, tabs).pending
    /\ reply' = NoReply
    /\ UNCHANGED <<apiUrl, configId, config, storageLoaded, lastSyncTime, storage,
                   loadData, now, syncs, outbox, schedVars, monitor>>

\* youtube-monitor.js:6 isWatchPage
isWatchPage(url) == Pathname(url) = <<"/watch">>

\* youtube-monitor.js:15 isAllowedPage
isAllowedPage(url) ==
    \/ Pathname(url) \in {<<"/">>, <<>>, <<"/results">>}
    \/ /\ Len(Pathname(url)) > 0
       /\ Pathname(url)[1] \in {"/@", "/c/", "/channel/", "/user/"}

\* youtube-monitor.js:29 isBlockedPage
isBlockedPage(url) == ~isAllowedPage(url) /\ ~isWatchPage(url)

\* youtube-monitor.js:34-52 checkUrl from the reply to its getState on: the
\* message it sends next for url, if any
checkUrl(state, url) ==
    IF ~state.hasConfig \/ state.isFreeTime THEN "none"
    ELSE IF isBlockedPage(url) THEN "blockPage"
    ELSE IF isWatchPage(url) THEN "checkYouTube"
    ELSE "none"

\* youtube-monitor.js:69-74: checkUrl in tab t comes to its end
checkUrlDone(t) == [monitor EXCEPT ![t].stage = "idle"]

\* The content script runs in the pages of youtube.com and sends checkYouTube
\* for the URL of its page when that is a watch page (youtube-monitor.js:55).
sendsCheckYouTube(url) ==
    /\ Hostname(url) \in {<<"www.", "youtube.com">>, <<"youtube.com">>}
    /\ isWatchPage(url)

\* youtube-monitor.js:56-66: what checkUrl in tab t sends once response, the
\* reply to its checkYouTube about url, has arrived: a blockPage message
\* when the reply is a checked verdict that does not allow the video.
blockPageSent(t, url, response) ==
    IF response.shouldCheck /\ ~response.allowed
    THEN {[tab |-> t, url |-> url]}
    ELSE {}

\* background.js:275 onMessage checkYouTube, sent from tab t about url
checkYouTube(t, url) ==
    /\ sendsCheckYouTube(url)
    /\ IF checkYouTubeEntry(Globals, url).type = "lookup"
       THEN /\ Len(lookups) < MaxLookups
            /\ lookups' = Append(lookups, [kind |-> "checkYouTube", tab |-> t,
                                           url |-> url, rest |-> <<>>])
            /\ reply' = NoReply
            /\ UNCHANGED <<outbox, monitor>>
       ELSE /\ reply' = checkYouTubeEntry(Globals, url)
            /\ outbox' = outbox \cup
                            blockPageSent(t, url, checkYouTubeEntry(Globals, url))
            /\ monitor' = checkUrlDone(t)
            /\ UNCHANGED lookups
    /\ UNCHANGED <<apiUrl, configId, config, storageLoaded, lastSyncTime, storage,
                   loadData, now, syncs, tabs, schedVars>>

\* The page in tab t changes its URL to url without a navigation (the
\* platform's in-page navigation, which youtube-monitor.js:34-37 observes):
\* no onBeforeNavigate event, and the content script lives on.
urlChange(t, url) ==
    /\ Hostname(tabs[t]) \in {<<"www.", "youtube.com">>, <<"youtube.com">>}
    /\ Hostname(url) \in {<<"www.", "youtube.com">>, <<"youtube.com">>}
    /\ url # tabs[t]
    /\ tabs' = [tabs EXCEPT ![t] = url]
    /\ reply' = NoReply
    /\ UNCHANGED <<apiUrl, configId, config, storageLoaded, lastSyncTime, storage,
                   loadData, now, syncs, lookups, outbox, schedVars, monitor>>

\* youtube-monitor.js:38-52 checkUrl in tab t, for the URL the tab shows: the
\* getState it sends is answered (background.js:233) and checkUrl, finding
\* enforcement on and a blocked page, sends blockPage
checkUrlBlockedPage(t) ==
    /\ storageLoaded
    /\ Hostname(tabs[t]) \in {<<"www.", "youtube.com">>, <<"youtube.com">>}
    /\ checkUrl(getStateReply(Globals, apiUrl), tabs[t]) = "blockPage"
    /\ outbox' = outbox \cup {[tab |-> t, url |-> tabs[t]]}
    /\ reply' = getStateReply(Globals, apiUrl)
    /\ UNCHANGED <<apiUrl, configId, config, storageLoaded, lastSyncTime, storage,
                   loadData, now, syncs, tabs, lookups, schedVars, monitor>>

\* background.js:248-254 onMessage blockPage, message m sent from tab m.tab
onBlockPage(m) ==
    /\ m \in outbox
    /\ tabs' = [tabs EXCEPT ![m.tab] = blockedUrl(m.url)]
    /\ outbox' = outbox \ {m}
    /\ reply' = [type |-> "blockPage", success |-> TRUE]
    /\ UNCHANGED <<apiUrl, configId, config, storageLoaded, lastSyncTime, storage,
                   loadData, now, syncs, lookups, schedVars, monitor>>

\* fetchYouTubeInfo of lookup i returns info: background.js:300 (checkYouTube)
\* or background.js:372-379 (checkOpenTabs, which then goes on with its loop)
lookupDone(i, info) ==
    /\ i \in 1..Len(lookups)
    /\ LET l == lookups[i]
           redirected == IF videoBlocked(Globals, info)
                         THEN [tabs EXCEPT ![l.tab] = blockedUrl(l.url)]
                         ELSE tabs
           after == checkTabsLoop(Globals, l.rest, redirected)
       IN  IF l.kind = "checkYouTube"
           THEN /\ reply' = checkYouTubeVerdict(Globals, l.url, info)
                /\ lookups' = RemoveAt(lookups, i)
                /\ outbox' = outbox \cup
                     blockPageSent(l.tab, l.url,
                                   checkYouTubeVerdict(Globals, l.url, info))
                /\ monitor' = checkUrlDone(l.tab)
                /\ UNCHANGED tabs
           ELSE /\ tabs' = after.tabs
                /\ lookups' = RemoveAt(lookups, i) \o after.pending
                /\ reply' = NoReply
                /\ UNCHANGED <<outbox, monitor>>
    /\ UNCHANGED <<apiUrl, configId, config, storageLoaded, lastSyncTime, storage,
                   loadData, now, syncs, schedVars>>

\* What the caller of syncConfig does once syncConfig has returned, with g
\* the globals syncConfig leaves: background.js:266 (setConfigId) and :271
\* (refreshConfig) reply, background.js:349 (the sync alarm) calls
\* checkOpenTabs.  The awaits on chrome.storage.local inside syncConfig
\* (background.js:31, :39) only delay the caller, and what it then does is
\* what the checkTabs alarm does from the same state.
afterSync(caller, g) ==
    IF caller = "alarm"
    THEN /\ Len(lookups) + Len(checkOpenTabs(g, tabs).pending) <= MaxLookups
         /\ tabs' = checkOpenTabs(g, tabs).tabs
         /\ lookups' = lookups \o checkOpenTabs(g, tabs).pending
         /\ reply' = NoReply
         /\ UNCHANGED outbox
    ELSE /\ reply' = IF caller = "refreshConfig"
                     THEN [type |-> "refreshConfig", success |-> TRUE,
                           config |-> g.config]
                     ELSE [type |-> "setConfigId", success |-> TRUE]
         /\ UNCHANGED <<tabs, lookups, outbox>>

\* background.js:263 onMessage setConfigId
setConfigId(id) ==
    /\ BagCardinality(syncs) < MaxSyncs
    /\ configId' = id
    /\ storage' = [storage EXCEPT !.configId = id]
    /\ syncs' = syncsAfterCall(id, apiUrl, "setConfigId")
    /\ IF canSync(id, apiUrl)
       THEN UNCHANGED <<tabs, lookups, outbox>> /\ reply' = NoReply
       ELSE afterSync("setConfigId", GlobalsOf(id, config, lastSyncTime, now))
    /\ UNCHANGED <<apiUrl, config, storageLoaded, lastSyncTime, loadData, now,
                   schedVars, monitor>>

\* background.js:270 onMessage refreshConfig
refreshConfig ==
    /\ BagCardinality(syncs) < MaxSyncs
    /\ syncs' = syncsAfterCall(configId, apiUrl, "refreshConfig")
    /\ IF canSync(configId, apiUrl)
       THEN UNCHANGED <<tabs, lookups, outbox>> /\ reply' = NoReply
       ELSE afterSync("refreshConfig", Globals)
    /\ UNCHANGED <<apiUrl, configId, config, storageLoaded, lastSyncTime, storage,
                   loadData, now, schedVars, monitor>>

\* background.js:345-349 onAlarm 'sync'
syncAlarm ==
    /\ BagCardinality(syncs) < MaxSyncs
    /\ syncs' = syncsAfterCall(configId, apiUrl, "alarm")
    /\ IF canSync(configId, apiUrl)
       THEN UNCHANGED <<tabs, lookups, outbox>> /\ reply' = NoReply
       ELSE afterSync("alarm", Globals)
    /\ UNCHANGED <<apiUrl, configId, config, storageLoaded, lastSyncTime, storage,
                   loadData, now, schedVars, monitor>>

\* A faulty syncOk: the response is merged into the cached snapshot, so the
\* allow-list of the previous snapshot survives.
syncOk_mergesFields(r, s) ==
    /\ BagIn(r, syncs)
    /\ config' = IF config = NoConfig THEN s
                 ELSE [s EXCEPT !.whitelist = config.whitelist]
    /\ lastSyncTime' = now
    /\ storage' = [storage EXCEPT !.config = config', !.lastSyncTime = now]
    /\ syncs' = syncs (-) SetToBag({r})
    /\ afterSync(r.caller, GlobalsOf(configId, config', now, now))
    /\ UNCHANGED <<apiUrl, configId, storageLoaded, loadData, now, schedVars, monitor>>

\* A faulty syncOk: of the responses that complete at the same instant the
\* first one wins, a later one is dropped.
syncOk_firstWins(r, s) ==
    /\ BagIn(r, syncs)
    /\ config' = IF config # NoConfig /\ lastSyncTime = now THEN config ELSE s
    /\ lastSyncTime' = now
    /\ storage' = [storage EXCEPT !.config = config', !.lastSyncTime = now]
    /\ syncs' = syncs (-) SetToBag({r})
    /\ afterSync(r.caller, GlobalsOf(configId, config', now, now))
    /\ UNCHANGED <<apiUrl, configId, storageLoaded, loadData, now, schedVars, monitor>>

\* background.js:28-33 syncConfig: the fetch of invocation r answers OK with
\* the body s
syncOk(r, s) ==
    /\ BagIn(r, syncs)
    /\ config' = s
    /\ lastSyncTime' = now
    /\ storage' = [storage EXCEPT !.config = s, !.lastSyncTime = now]
    /\ syncs' = syncs (-) SetToBag({r})
    /\ afterSync(r.caller, GlobalsOf(configId, s, now, now))
    /\ UNCHANGED <<apiUrl, configId, storageLoaded, loadData, now, schedVars, monitor>>

\* a 404 branch that clears identity and snapshot and keeps lastSyncTime, as
\* clearConfig does
syncNotFound_keepsLastSync(r) ==
    /\ BagIn(r, syncs)
    /\ configId' = Null
    /\ config' = NoConfig
    /\ storage' = [storage EXCEPT !.configId = Null, !.config = NoConfig]
    /\ syncs' = syncs (-) SetToBag({r})
    /\ afterSync(r.caller, GlobalsOf(Null, NoConfig, lastSyncTime, now))
    /\ UNCHANGED <<apiUrl, storageLoaded, lastSyncTime, loadData, now, schedVars, monitor>>

\* background.js:34-42 syncConfig: the fetch of invocation r answers 404
syncNotFound(r) ==
    /\ BagIn(r, syncs)
    /\ configId' = Null
    /\ config' = NoConfig
    /\ lastSyncTime' = NoTime
    /\ storage' = [storage EXCEPT !.configId = Null, !.config = NoConfig,
                                  !.lastSyncTime = NoTime]
    /\ syncs' = syncs (-) SetToBag({r})
    /\ afterSync(r.caller, GlobalsOf(Null, NoConfig, NoTime, now))
    /\ UNCHANGED <<apiUrl, storageLoaded, loadData, now, schedVars, monitor>>

\* a failure branch that drops the cached snapshot
syncFail_dropsConfig(r) ==
    /\ BagIn(r, syncs)
    /\ config' = NoConfig
    /\ storage' = [storage EXCEPT !.config = NoConfig]
    /\ syncs' = syncs (-) SetToBag({r})
    /\ afterSync(r.caller, GlobalsOf(configId, NoConfig, lastSyncTime, now))
    /\ UNCHANGED <<apiUrl, configId, storageLoaded, lastSyncTime, loadData, now,
                   schedVars, monitor>>

\* a syncConfig whose failure goes out to its caller: the promise rejects,
\* no reply is sent and the alarm's listener ends before checkOpenTabs
syncFail_raises(r) ==
    /\ BagIn(r, syncs)
    /\ syncs' = syncs (-) SetToBag({r})
    /\ reply' = NoReply
    /\ UNCHANGED <<apiUrl, configId, config, storageLoaded, lastSyncTime, storage,
                   loadData, now, tabs, lookups, outbox, schedVars, monitor>>

\* background.js:27, :29, :42-46 syncConfig: the fetch of invocation r fails
\* (it throws, the status is neither OK nor 404, or the body is no JSON);
\* nothing is assigned and syncConfig returns to its caller
syncFail(r) ==
    /\ BagIn(r, syncs)
    /\ syncs' = syncs (-) SetToBag({r})
    /\ afterSync(r.caller, Globals)
    /\ UNCHANGED <<apiUrl, configId, config, storageLoaded, lastSyncTime, storage,
                   loadData, now, schedVars, monitor>>

----------------------------------------------------------------------------
(* Specifications of background.js *)

\* The Sync Client: the service worker's life cycle, the messages that set
\* the identity, and syncConfig with its callers.
Next ==
    \/ Tick
    \/ loadFromStorage
    \/ Restart
    \/ \E a \in ApiUrls : setApiUrl(a)
    \/ \E id \in Ids : setConfigId(id)
    \/ refreshConfig
    \/ clearConfig
    \/ getState
    \/ syncAlarm
    \/ \E r \in BagToSet(syncs), s \in ServerSnapshots : syncOk(r, s)
    \/ \E r \in BagToSet(syncs) : syncNotFound(r)
    \/ \E r \in BagToSet(syncs) : syncFail(r)

Spec == Init /\ [][Next]_vars

\* The Navigation Gate on a cache that no sync touches: the worker has loaded
\* its state, which is any identity, snapshot and sync time the Sync Client
\* can leave (an identity without a snapshot, a snapshot without an
\* identity after a clearConfig that a response followed, a sync time
\* without a snapshot after clearConfig), and the clock runs.
InitGate ==
    /\ apiUrl \in ApiUrls
    /\ configId \in {Null, "id1"}
    /\ config \in AllSnapshots \cup {NoConfig}
    /\ now = TickMs
    /\ lastSyncTime \in {t \in {NoTime, TickMs} : config # NoConfig => t # NoTime}
    /\ storageLoaded = TRUE
    /\ storage = [apiUrl |-> apiUrl, configId |-> configId, config |-> config,
                  lastSyncTime |-> lastSyncTime]
    /\ loadData = NoLoad
    /\ syncs = EmptyBag
    /\ tabs = [t \in Tabs |-> UNewTab]
    /\ lookups = <<>>
    /\ outbox = {}
    /\ reply = NoReply
    /\ settings = DEFAULT_SETTINGS
    /\ schedTab = UNewTab
    /\ monitor = NoMonitor

NextGate ==
    \/ Tick
    \/ getState
    \/ \E t \in Tabs, u \in Urls : onBeforeNavigate(t, u)
    \/ checkTabsAlarm
    \/ \E t \in Tabs : onBeforeNavigate(t, tabs[t])
    \/ \E t \in Tabs : checkYouTube(t, tabs[t])
    \/ \E i \in 1..MaxLookups, info \in Infos \cup {NoInfo} : lookupDone(i, info)
    \/ \E m \in outbox : onBlockPage(m)

SpecGate == InitGate /\ [][NextGate]_vars

\* The Navigation Gate and the secondary check of watch pages, on a cache
\* whose snapshot has any of the creator and keyword lists.
InitVideo ==
    /\ apiUrl \in ApiUrls
    /\ configId \in {Null, "id1"}
    /\ config \in VideoSnapshots \cup {NoConfig}
    /\ now = TickMs
    /\ lastSyncTime \in {t \in {NoTime, TickMs} : config # NoConfig => t # NoTime}
    /\ storageLoaded = TRUE
    /\ storage = [apiUrl |-> apiUrl, configId |-> configId, config |-> config,
                  lastSyncTime |-> lastSyncTime]
    /\ loadData = NoLoad
    /\ syncs = EmptyBag
    /\ tabs = [t \in Tabs |-> UNewTab]
    /\ lookups = <<>>
    /\ outbox = {}
    /\ reply = NoReply
    /\ settings = DEFAULT_SETTINGS
    /\ schedTab = UNewTab
    /\ monitor = NoMonitor

SpecVideo == InitVideo /\ [][NextGate]_vars

\* The Navigation Gate together with the content script of the platform's
\* pages: a configured client whose snapshot allows nothing, the watch page
\* or the shorts pages, and holds a keyword list or none; besides the steps
\* of NextGate, a page of the platform changes its URL in place and the
\* content script reports a blocked page.
PageSnapshots ==
    {Snapshot(TRUE, wl, st, MaxRemaining, NoTime, <<>>, kw) :
        wl \in {<<>>, <<PInvalid, PWatch>>, <<PShorts>>},
        st \in {Null, SessionStart},
        kw \in {<<>>, <<KwLecture>>}}

InitPage ==
    /\ apiUrl = "https://api.example"
    /\ configId = "id1"
    /\ config \in PageSnapshots
    /\ now = TickMs
    /\ lastSyncTime = TickMs
    /\ storageLoaded = TRUE
    /\ storage = [apiUrl |-> apiUrl, configId |-> configId, config |-> config,
                  lastSyncTime |-> lastSyncTime]
    /\ loadData = NoLoad
    /\ syncs = EmptyBag
    /\ tabs = [t \in Tabs |-> UNewTab]
    /\ lookups = <<>>
    /\ outbox = {}
    /\ reply = NoReply
    /\ settings = DEFAULT_SETTINGS
    /\ schedTab = UNewTab
    /\ monitor = NoMonitor

\* The secondary check of a configured client outside free time whose
\* snapshot has a creator list and no keyword list: the list has Jane Doe's
\* handle, a part of it, an entry longer than it, or the latter two.
CreatorLists == {<<CrJane>>, <<CrPartial>>, <<CrLong>>, <<CrLong, CrPartial>>}

CreatorSnapshots ==
    {Snapshot(TRUE, <<>>, Null, 0, NoTime, cr, <<>>) : cr \in CreatorLists}

InitCreator ==
    /\ apiUrl = "https://api.example"
    /\ configId = "id1"
    /\ config \in CreatorSnapshots
    /\ now = TickMs
    /\ lastSyncTime = TickMs
    /\ storageLoaded = TRUE
    /\ storage = [apiUrl |-> apiUrl, configId |-> configId, config |-> config,
                  lastSyncTime |-> lastSyncTime]
    /\ loadData = NoLoad
    /\ syncs = EmptyBag
    /\ tabs = [t \in Tabs |-> UNewTab]
    /\ lookups = <<>>
    /\ outbox = {}
    /\ reply = NoReply
    /\ settings = DEFAULT_SETTINGS
    /\ schedTab = UNewTab
    /\ monitor = NoMonitor

SpecCreator == InitCreator /\ [][NextGate]_vars

\* The Rule Evaluator and getState on a cache whose snapshot has any value
\* of freeTimeStartedAt the server's JSON can carry: null, none, the empty
\* string, a timestamp.
BudgetSnapshots ==
    {Snapshot(TRUE, <<>>, st, rem, dis, <<>>, <<>>) :
        st \in {Null, Undefined, "", SessionStart},
        rem \in 0..MaxRemaining,
        dis \in {NoTime, DisableEnd}}

InitBudget ==
    /\ apiUrl = "https://api.example"
    /\ configId = "id1"
    /\ config \in BudgetSnapshots
    /\ now = TickMs
    /\ lastSyncTime \in {NoTime, TickMs}
    /\ storageLoaded = TRUE
    /\ storage = [apiUrl |-> apiUrl, configId |-> configId, config |-> config,
                  lastSyncTime |-> lastSyncTime]
    /\ loadData = NoLoad
    /\ syncs = EmptyBag
    /\ tabs = [t \in Tabs |-> UNewTab]
    /\ lookups = <<>>
    /\ outbox = {}
    /\ reply = NoReply
    /\ settings = DEFAULT_SETTINGS
    /\ schedTab = UNewTab
    /\ monitor = NoMonitor

SpecBudget == InitBudget /\ [][NextGate]_vars

\* youtube-monitor.js:76-86 onUrlChange in tab t, called by the
\* yt-navigate-finish listener, the 500 ms interval or popstate when the
\* page's URL is not lastUrl; its call of checkUrl returns at once when a
\* check is in progress (youtube-monitor.js:35), else checkUrl sends getState
onUrlChange(t) ==
    /\ Hostname(tabs[t]) \in {<<"www.", "youtube.com">>, <<"youtube.com">>}
    /\ tabs[t] # monitor[t].lastUrl
    /\ monitor' = [monitor EXCEPT ![t] =
                      IF ~isAllowedPage(tabs[t]) /\ @.stage = "idle"
                      THEN Monitor(tabs[t], "getState", tabs[t])
                      ELSE [@ EXCEPT !.lastUrl = tabs[t]]]
    /\ reply' = NoReply
    /\ UNCHANGED <<apiUrl, configId, config, storageLoaded, lastSyncTime, storage,
                   loadData, now, syncs, tabs, lookups, outbox, schedVars>>

\* youtube-monitor.js:40-55 checkUrl in tab t, from the reply of getState
\* (background.js:233) to its return, its blockPage or its checkYouTube
checkUrlOnState(t) ==
    /\ storageLoaded
    /\ monitor[t].stage = "getState"
    /\ LET state == getStateReply(Globals, apiUrl)
           sends == checkUrl(state, monitor[t].url)
       IN  /\ reply' = state
           /\ outbox' = IF sends = "blockPage"
                        THEN outbox \cup {[tab |-> t, url |-> monitor[t].url]}
                        ELSE outbox
           /\ monitor' = IF sends = "checkYouTube"
                         THEN [monitor EXCEPT ![t].stage = "checkYouTube"]
                         ELSE checkUrlDone(t)
    /\ UNCHANGED <<apiUrl, configId, config, storageLoaded, lastSyncTime, storage,
                   loadData, now, syncs, tabs, lookups, schedVars>>

\* background.js:275 onMessage checkYouTube, for the message the checkUrl of
\* tab t has sent and waits the reply of
checkUrlCheckYouTube(t) ==
    /\ monitor[t].stage = "checkYouTube"
    /\ \A i \in 1..Len(lookups) :
          ~(lookups[i].kind = "checkYouTube" /\ lookups[i].tab = t)
    /\ checkYouTube(t, monitor[t].url)

\* The content script of a tab on the platform, with its own state: the
\* tab shows the home page, the script has been loaded there; the client is
\* configured and no free time is in force.  The page changes its URL in
\* place, the script notices and checks, the background answers its
\* messages and runs its checkTabs alarm.
MonitorSnapshots ==
    {Snapshot(TRUE, <<>>, Null, 0, NoTime, <<>>, kw) : kw \in {<<>>, <<KwLecture>>}}

InitMonitor ==
    /\ apiUrl = "https://api.example"
    /\ configId = "id1"
    /\ config \in MonitorSnapshots
    /\ now = TickMs
    /\ lastSyncTime = TickMs
    /\ storageLoaded = TRUE
    /\ storage = [apiUrl |-> apiUrl, configId |-> configId, config |-> config,
                  lastSyncTime |-> lastSyncTime]
    /\ loadData = NoLoad
    /\ syncs = EmptyBag
    /\ tabs = [t \in Tabs |-> UYtHome]
    /\ lookups = <<>>
    /\ outbox = {}
    /\ reply = NoReply
    /\ settings = DEFAULT_SETTINGS
    /\ schedTab = UNewTab
    /\ monitor = [t \in Tabs |-> Monitor(UYtHome, "idle", NoUrl)]

NextMonitor ==
    \/ \E t \in Tabs, u \in MonitorUrls : urlChange(t, u)
    \/ \E t \in Tabs : onUrlChange(t)
    \/ \E t \in Tabs : checkUrlOnState(t)
    \/ \E t \in Tabs : checkUrlCheckYouTube(t)
    \/ \E i \in 1..MaxLookups, info \in Infos \cup {NoInfo} : lookupDone(i, info)
    \/ \E m \in outbox : onBlockPage(m)
    \/ checkTabsAlarm

SpecMonitor == InitMonitor /\ [][NextMonitor]_vars

\* The same, with the scheduling of the browser: the script's interval
\* fires every 500 ms (youtube-monitor.js:101), the background answers each
\* message, every lookup comes to an end, and the checkTabs alarm fires
\* every minute (background.js:343).  The page changes its URL when the
\* user makes it, or never.
FairMonitor ==
    /\ SpecMonitor
    /\ \A t \in Tabs : /\ WF_vars(onUrlChange(t))
                        /\ WF_vars(checkUrlOnState(t))
                        /\ WF_vars(checkUrlCheckYouTube(t))
    /\ WF_vars(\E i \in 1..MaxLookups, info \in Infos \cup {NoInfo} : lookupDone(i, info))
    /\ WF_vars(\E m \in outbox : onBlockPage(m))
    /\ WF_vars(checkTabsAlarm)

NextPage ==
    \/ NextGate
    \/ \E t \in Tabs, u \in PlatformUrls : urlChange(t, u)
    \/ \E t \in Tabs : checkUrlBlockedPage(t)

SpecPage == InitPage /\ [][NextPage]_vars

\* The service worker of a paired client: the profile holds an identity, a
\* snapshot and the time of its sync; the worker has just been started and
\* its load is pending.  The worker is stopped and started again at any
\* time, tabs navigate, the two alarms fire, and the server answers the
\* alarm's fetch in any of its ways; no page sends a message.
StartUrls == {UExample, UOther, UYtWatch}

InitStart ==
    /\ apiUrl = Null
    /\ configId = Null
    /\ config = NoConfig
    /\ storageLoaded = FALSE
    /\ lastSyncTime = NoTime
    /\ \E a \in ApiUrls, s \in ServerSnapshots :
          storage = [apiUrl |-> a, configId |-> "id1", config |-> s,
                     lastSyncTime |-> TickMs]
    /\ loadData = storage
    /\ now = TickMs
    /\ syncs = EmptyBag
    /\ tabs = [t \in Tabs |-> UNewTab]
    /\ lookups = <<>>
    /\ outbox = {}
    /\ reply = NoReply
    /\ settings = DEFAULT_SETTINGS
    /\ schedTab = UNewTab
    /\ monitor = NoMonitor

NextStart ==
    \/ Tick
    \/ loadFromStorage
    \/ Restart
    \/ \E t \in Tabs, u \in StartUrls : onBeforeNavigate(t, u)
    \/ checkTabsAlarm
    \/ syncAlarm
    \/ \E r \in BagToSet(syncs), s \in ServerSnapshots : syncOk(r, s)
    \/ \E r \in BagToSet(syncs) : syncNotFound(r)
    \/ \E r \in BagToSet(syncs) : syncFail(r)
    \/ \E i \in 1..MaxLookups, info \in Infos \cup {NoInfo} : lookupDone(i, info)

SpecStart == InitStart /\ [][NextStart]_vars

\* The same worker, with the popup's refreshConfig and setConfigId messages
\* besides the alarms.
NextSync ==
    \/ NextStart
    \/ refreshConfig
    \/ \E id \in Ids : setConfigId(id)

SpecSync == InitStart /\ [][NextSync]_vars

\* The same, with the browser's scheduling: the storage read of a started
\* worker completes, and the checkTabs alarm fires every minute
\* (background.js:343), so that a run of checkOpenTabs that would change a
\* tab does not stay possible forever without happening.  An alarm that
\* finds nothing to do changes nothing, and the worker may be stopped
\* between any two events.
FairStart ==
    SpecStart /\ WF_vars(loadFromStorage) /\ WF_vars(checkTabsAlarm)

\* part_000:92-108 handleTab: the URL the tab shows once handleTab has run
\* for url under the settings st at time t
handleTabResult(url, st, t) ==
    IF includesBlockHtml(url) THEN url
    ELSE IF shouldBlockUrl(url, st, t) THEN blockPage(url)
    ELSE url

\* part_000:92 handleTab, for a tab that shows url
handleTab(url) ==
    /\ schedTab' = handleTabResult(url, settings, now)
    /\ UNCHANGED <<apiUrl, configId, config, storageLoaded, lastSyncTime, storage,
                   loadData, now, syncs, tabs, lookups, outbox, reply, settings,
                   monitor>>

\* part_000:141 msg.until || 0
untilStored(until) == IF until # NoTime THEN until ELSE 0

\* part_000:139 onMessage disableUntil, with msg.until = until
disableUntil(until) ==
    /\ settings' = [settings EXCEPT !.manualDisabledUntil = untilStored(until)]
    /\ UNCHANGED <<apiUrl, configId, config, storageLoaded, lastSyncTime, storage,
                   loadData, now, syncs, tabs, lookups, outbox, reply, schedTab,
                   monitor>>

\* part_000:146 onMessage toggleEnabled
toggleEnabled ==
    /\ settings' = [settings EXCEPT !.enabled = ~settings.enabled]
    /\ UNCHANGED <<apiUrl, configId, config, storageLoaded, lastSyncTime, storage,
                   loadData, now, syncs, tabs, lookups, outbox, reply, schedTab,
                   monitor>>

\* youtube-monitor.js:247-266 (options.js) saveBtn: the options page saves
\* the allow-list and the schedules
saveOptions(wl, sch) ==
    /\ settings' = [settings EXCEPT !.whitelist = wl, !.schedules = sch]
    /\ UNCHANGED <<apiUrl, configId, config, storageLoaded, lastSyncTime, storage,
                   loadData, now, syncs, tabs, lookups, outbox, reply, schedTab,
                   monitor>>

\* The popup's unlock button asks for a time in the future, or for 0 when the
\* duration is left blank (popup.js:52, :60-61)
UnlockTimes == {NoTime} \cup {t + TickMs : t \in Times}

NextSched ==
    \/ Tick
    \/ \E u \in Urls : handleTab(u)
    \/ \E until \in UnlockTimes : disableUntil(until)
    \/ toggleEnabled
    \/ \E wl \in Whitelists, sch \in Schedules : saveOptions(wl, sch)

SpecSched == Init /\ [][NextSched]_vars

----------------------------------------------------------------------------
(* Properties                                                              *)

\* a free-time session is open in the snapshot cfg
SessionOpen(cfg) == cfg.freeTimeStartedAt \notin {Null, Undefined}

\* the client is configured and holds a snapshot
Configured == configId # Null /\ config # NoConfig

\* the pages the browser and the extension serve themselves
InternalUrls == {UNewTab, UExtPage}

\* C1: whenever configId is null, shouldBlock is true for every URL that is
\* not a page of the browser or of the extension, whatever snapshot is cached
\* (an open session with budget left, a temporary disable in the future, a
\* pattern that matches the URL).
C1_UnconfiguredFailClosed ==
    configId = Null =>
        \A u \in Urls \ InternalUrls : shouldBlock(Globals, u)

\* C1's case: no identity, a cached snapshot that would allow example.com
\* three times over, and the tab that went there shows the blocked page.
C1_Witness ==
    /\ configId = Null
    /\ config # NoConfig
    /\ SessionOpen(config) /\ getLocalRemainingSeconds(Globals) > 0
    /\ isTemporarilyDisabled(Globals)
    /\ matchesWhitelist(Globals, UExample)
    /\ tabs["t1"] = blockedUrl(UExample)

\* every value the schedule variant's settings can take
AllSettings ==
    [enabled : BOOLEAN, whitelist : Whitelists, schedules : Schedules,
     manualDisabledUntil : UnlockTimes]

\* shouldBlockUrl is false for every URL isSpecialUrl recognises, under every
\* setting and at every time
SpecialUrlsAllowedBySchedule ==
    \A u \in Urls, st \in AllSettings, t \in Times :
        isSpecialUrl(u) => ~shouldBlockUrl(u, st, t)

C3_AllowListAllows ==
    Configured =>
        /\ \A u \in Urls :
              (\E i \in 1..Len(config.whitelist) :
                    PatternMatches(config.whitelist[i], u))
                  => ~shouldBlock(Globals, u)
        /\ config.whitelist = <<PExample>> => ~shouldBlock(Globals, UExample)

\* C3's case: no free time, no temporary disable, a URL outside the list is
\* blocked, and the tab that went to the matching URL shows it.
C3_Witness ==
    /\ Configured
    /\ ~isFreeTime(Globals) /\ ~isTemporarilyDisabled(Globals)
    /\ config.whitelist = <<PExample>>
    /\ shouldBlock(Globals, UOther)
    /\ tabs["t1"] = UExample

\* C4: for a configured client whose snapshot has enabled = false, shouldBlock
\* is false for every URL.
C4_DisabledSnapshotAllowsAll ==
    (Configured /\ ~config.enabled) =>
        \A u \in Urls : ~shouldBlock(Globals, u)

\* C4's case: enforcement switched off in the snapshot, no free time, and
\* the tab that went to other.com shows the blocked page.
C4_Witness ==
    /\ Configured /\ ~config.enabled
    /\ ~isFreeTime(Globals)
    /\ tabs["t1"] = blockedUrl(UOther)

\* C5: while disabledUntil is in the future, a configured client allows
\* every URL wherever a decision starts: shouldBlock is false, checkOpenTabs
\* redirects no tab and starts no lookup, and the checkYouTube handler
\* answers that no check is needed.
C5_TemporaryDisableAllows ==
    (Configured /\ config.disabledUntil # NoTime /\ now < config.disabledUntil) =>
        /\ \A u \in Urls : ~shouldBlock(Globals, u)
        /\ \A u \in Urls :
              checkOpenTabs(Globals, [t \in Tabs |-> u])
                  = [tabs |-> [t \in Tabs |-> u], pending |-> <<>>]
        /\ \A u \in Urls :
              checkYouTubeEntry(Globals, u)
                  = [type |-> "checkYouTube", shouldCheck |-> FALSE, url |-> u]
        /\ reply.type = "checkYouTube" => ~reply.shouldCheck

\* C5's case: the disable is in the future, an open session has nothing
\* left, no pattern is listed; the tab went to a watch page, shows it, and
\* its content script was told that no check is needed.
C5_Witness ==
    /\ Configured
    /\ now < config.disabledUntil
    /\ SessionOpen(config) /\ getLocalRemainingSeconds(Globals) = 0
    /\ config.whitelist = <<>>
    /\ tabs["t1"] = UYtWatch
    /\ reply.type = "checkYouTube" /\ ~reply.shouldCheck

\* the projected remaining budget as the specification defines it, in
\* thousandths of a second: the stored value while no session is open, and
\* the stored value less the time since the sync, not below 0, while one is
ProjectedRemaining(cfg, last, t) ==
    IF SessionOpen(cfg)
    THEN IF cfg.freeTimeRemaining * MsPerSecond - (t - last) > 0
         THEN cfg.freeTimeRemaining * MsPerSecond - (t - last)
         ELSE 0
    ELSE cfg.freeTimeRemaining * MsPerSecond

\* C6: isFreeTime is true exactly when the temporary disable is set and in
\* the future, or a session is open and the projected remaining budget is
\* above 0; with no snapshot it is false.
C6_FreeTimeExactly ==
    /\ config = NoConfig => ~isFreeTime(Globals)
    /\ config # NoConfig =>
          (isFreeTime(Globals) <=>
              \/ config.disabledUntil # NoTime /\ now < config.disabledUntil
              \/ /\ SessionOpen(config)
                 /\ ProjectedRemaining(config, lastSyncTime, now) > 0)

\* C6's case: a session is open and its budget has just run out; getState
\* reports no free time.
C6_Witness ==
    /\ config # NoConfig
    /\ SessionOpen(config)
    /\ config.freeTimeRemaining > 0
    /\ config.freeTimeRemaining * MsPerSecond = now - lastSyncTime
    /\ ~isTemporarilyDisabled(Globals)
    /\ reply.type = "getState" /\ ~reply.isFreeTime

\* C7: getLocalRemainingSeconds is the projected remaining budget of the
\* cached snapshot, for every snapshot, lastSyncTime and time.
C7_ProjectedRemaining ==
    config # NoConfig =>
        getLocalRemainingSeconds(Globals)
            = ProjectedRemaining(config, lastSyncTime, now)

\* C7's case: a session is open, more time has passed since the sync than
\* the snapshot had left; getState reports 0 seconds and no free time.
C7_Witness ==
    /\ config # NoConfig
    /\ SessionOpen(config)
    /\ config.freeTimeRemaining * MsPerSecond < now - lastSyncTime
    /\ config.disabledUntil = NoTime
    /\ reply.type = "getState"
    /\ reply.localRemainingSeconds = 0 /\ ~reply.isFreeTime

\* the globals after the step
GlobalsAfter == GlobalsOf(configId', config', lastSyncTime', now')

SyncOkStep == \E r \in BagToSet(syncs), s \in ServerSnapshots : syncOk(r, s)

\* C9: a step in which getState replies leaves the cached snapshot,
\* lastSyncTime and the persisted copy as they were; the cached snapshot
\* becomes another snapshot only when an OK response is applied or when the
\* persisted copy is loaded at start, and the persisted snapshot becomes
\* another snapshot only when an OK response is applied.
C9_BudgetReadsPure ==
    [][/\ reply'.type = "getState" => UNCHANGED <<config, lastSyncTime, storage>>
       /\ (config' # config /\ config' # NoConfig)
             => SyncOkStep \/ loadFromStorage
       /\ (storage'.config # storage.config /\ storage'.config # NoConfig)
             => SyncOkStep]_vars

\* C9's case: getState has reported a budget drained below the stored value,
\* and the stored value is still what the server sent.
C9_Witness ==
    /\ reply.type = "getState"
    /\ config \in ServerSnapshots
    /\ SessionOpen(config)
    /\ reply.localRemainingSeconds < config.freeTimeRemaining * MsPerSecond
    /\ storage.config = config
    /\ storage.lastSyncTime = lastSyncTime

\* C10: the step that applies an OK response with body s makes s the cached
\* snapshot, sets lastSyncTime to the time of the step, and writes the two,
\* and nothing else, to storage.
C10_RefreshReplacesWhole ==
    [][\A r \in BagToSet(syncs), s \in ServerSnapshots :
          syncOk(r, s) =>
              /\ config' = s
              /\ lastSyncTime' = now
              /\ storage' = [storage EXCEPT !.config = s, !.lastSyncTime = now]]_vars

\* C10's case: refreshConfig has replied after an OK response, some time
\* after start; cache and storage hold the response and the time it came.
C10_Witness ==
    /\ reply.type = "refreshConfig"
    /\ reply.config = config
    /\ config \in ServerSnapshots
    /\ config.whitelist = <<>>
    /\ lastSyncTime = now /\ now > TickMs
    /\ storage.config = config /\ storage.lastSyncTime = now

\* C11: the step that applies a 404 response leaves configId, config and
\* lastSyncTime absent in memory and in storage, whatever they were and
\* whichever caller started the refresh, and from the state it leaves the
\* client decides as unconfigured: no free time, and every URL that is not
\* a page of the browser or of the extension is blocked.
C11_NotFoundClearsAll ==
    [][\A r \in BagToSet(syncs) :
          syncNotFound(r) =>
              /\ configId' = Null /\ config' = NoConfig /\ lastSyncTime' = NoTime
              /\ storage'.configId = Null
              /\ storage'.config = NoConfig
              /\ storage'.lastSyncTime = NoTime
              /\ ~isFreeTime(GlobalsAfter)
              /\ \A u \in Urls \ InternalUrls : shouldBlock(GlobalsAfter, u)]_vars

\* C11's case: setConfigId has replied after its refresh was answered 404 in
\* a worker whose load is still pending; the load had read a snapshot and a
\* sync time, which the 404 has removed from storage along with the identity.
C11_Witness ==
    /\ reply.type = "setConfigId"
    /\ ~storageLoaded
    /\ loadData.config # NoConfig /\ loadData.lastSyncTime # NoTime
    /\ configId = Null /\ config = NoConfig /\ lastSyncTime = NoTime
    /\ storage.configId = Null /\ storage.config = NoConfig
    /\ storage.lastSyncTime = NoTime
    /\ storage.apiUrl # Null

\* C12: the step in which a refresh fails other than by a 404 leaves
\* configId, config, lastSyncTime and storage as they were, so the globals
\* every decision reads are after it what they were before it (the clock
\* included, the step taking no time); and the only steps that take the identity
\* out of storage are a 404 response and clearConfig, the only other steps
\* that take it out of memory being the stop of the worker and the load that
\* follows it.
C12_FailureKeepsLastKnownGood ==
    [][/\ \A r \in BagToSet(syncs) :
             syncFail(r) =>
                 /\ UNCHANGED <<configId, config, lastSyncTime, storage>>
                 /\ GlobalsAfter = Globals
       /\ (storage.configId # Null /\ storage'.configId = Null) =>
              (clearConfig \/ \E r \in BagToSet(syncs) : syncNotFound(r))
       /\ (configId # Null /\ configId' = Null) =>
              \/ clearConfig
              \/ \E r \in BagToSet(syncs) : syncNotFound(r)
              \/ Restart
              \/ loadFromStorage]_vars

\* C12's case: refreshConfig has replied with the snapshot of an earlier
\* sync, so the refresh it ran has failed; identity, snapshot and the older
\* sync time are still in memory and in storage.
C12_Witness ==
    /\ reply.type = "refreshConfig"
    /\ configId # Null /\ apiUrl # Null
    /\ config \in ServerSnapshots /\ reply.config = config
    /\ lastSyncTime # NoTime /\ lastSyncTime < now
    /\ storage.configId = configId /\ storage.config = config
    /\ storage.lastSyncTime = lastSyncTime

\* the secondary check of the video info blocks: the lookup failed, or
\* neither list of the snapshot matches (background.js:302, :316, :373-377)
SecondaryBlocks(info) == videoBlocked(Globals, info)

\* C13: with an identity set, shouldBlock is false for the watch page under
\* every snapshot, sync time and clock, and the navigation hook leaves a tab
\* that goes there on the watch page; the only steps that take a tab from
\* the watch page to the blocked page are the end of a lookup of
\* checkOpenTabs whose result the secondary check blocks and the blockPage
\* message, which the content script sends only in the step that ends a
\* checkYouTube lookup whose result the secondary check blocks.
C13_WatchPageOnlySecondary ==
    [][configId # Null =>
         /\ ~shouldBlock(Globals, UYtWatch)
         /\ \A t \in Tabs : onBeforeNavigate(t, UYtWatch) => tabs'[t] = UYtWatch
         /\ outbox' # outbox /\ outbox \subseteq outbox' =>
                \E i \in 1..Len(lookups), info \in Infos \cup {NoInfo} :
                    /\ lookupDone(i, info)
                    /\ lookups[i].kind = "checkYouTube"
                    /\ SecondaryBlocks(info)
         /\ \A t \in Tabs :
                tabs[t] = UYtWatch /\ tabs'[t] = blockedUrl(UYtWatch) =>
                    \/ \E m \in outbox : onBlockPage(m)
                    \/ \E i \in 1..Len(lookups), info \in Infos \cup {NoInfo} :
                           /\ lookupDone(i, info)
                           /\ lookups[i].kind = "checkOpenTabs"
                           /\ SecondaryBlocks(info)]_vars

\* C13's case: a configured client outside free time whose tab went to the
\* watch page, which the hook let through and no pattern allows; the
\* content script's check ended in a blockPage message, and the handler of
\* that message has just redirected the tab.
C13_Witness ==
    /\ configId # Null /\ config # NoConfig
    /\ ~isFreeTime(Globals)
    /\ ~matchesWhitelist(Globals, UYtWatch)
    /\ config.youtubeKeywords # <<>>
    /\ reply.type = "blockPage"
    /\ tabs["t1"] = blockedUrl(UYtWatch)

\* the reason for blocking that the step just taken has stated: the reason
\* of a checkYouTube reply that blocks; a redirect states none, the blocked
\* page's URL carrying the blocked URL only (background.js:171-173)
StatedReason ==
    IF reply.type = "checkYouTube" /\ reply.shouldCheck /\ ~reply.allowed
    THEN reply.reason
    ELSE Null

\* the step that ends lookup i with a failure blocks: the reply of
\* checkYouTube does not allow and the content script asks for the
\* redirect, checkOpenTabs redirects the tab it was looking at
FailureBlocks(i) ==
    IF lookups[i].kind = "checkYouTube"
    THEN /\ reply'.type = "checkYouTube"
         /\ reply'.shouldCheck /\ ~reply'.allowed
         /\ [tab |-> lookups[i].tab, url |-> lookups[i].url] \in outbox'
    ELSE tabs'[lookups[i].tab] = blockedUrl(lookups[i].url)

KeywordsOf(cfg) == IF cfg = NoConfig THEN {} ELSE Range(cfg.youtubeKeywords)
CreatorsOf(cfg) == IF cfg = NoConfig THEN {} ELSE Range(cfg.youtubeCreators)

\* the lowercased title contains a lowercased entry of the keyword list
TitleHasKeyword(info) ==
    \E k \in KeywordsOf(config) : Includes(LowerSeq(info.title), LowerSeq(k))

\* an entry of the creator list matches the author's name or URL
AuthorMatches(info) ==
    \E c \in CreatorsOf(config) :
        \/ Includes(normalizeCreator(info.authorName), normalizeCreator(c))
        \/ Includes(normalizeCreator(info.authorUrl), normalizeCreator(c))

\* Scenario E: the lookup returns Jane Doe's "Algebra Lecture 1", the keyword
\* list is ["lecture"], the creator list is empty; the verdict is Allow
ScenarioE ==
    LET g == GlobalsOf("id1", Snapshot(TRUE, <<>>, Null, 0, NoTime, <<>>,
                                       <<KwLecture>>), TickMs, TickMs)
    IN  /\ checkYouTubeVerdict(g, UYtWatch, InfoLecture).allowed
        /\ ~videoBlocked(g, InfoLecture)

\* C15: the step that ends a lookup with a result allows exactly when a
\* creator entry matches the author or the title contains a keyword entry:
\* checkYouTube replies allowed, and the content script asks for no
\* redirect, exactly then; checkOpenTabs leaves the tabs alone exactly
\* then and redirects the tab it looked at otherwise.  A keyword match is
\* enough with no creator list (Scenario E), and with both lists empty
\* nothing matches.
C15_SecondaryVerdict ==
    [][/\ ScenarioE
       /\ \A i \in 1..Len(lookups), info \in Infos :
             lookupDone(i, info) =>
                 LET allow == AuthorMatches(info) \/ TitleHasKeyword(info)
                     l == lookups[i]
                 IN  /\ KeywordsOf(config) \cup CreatorsOf(config) = {} => ~allow
                     /\ IF l.kind = "checkYouTube"
                        THEN /\ reply'.shouldCheck
                             /\ reply'.allowed = allow
                             /\ outbox' = outbox \cup
                                    (IF allow THEN {}
                                     ELSE {[tab |-> l.tab, url |-> l.url]})
                        ELSE IF allow THEN tabs' = tabs
                             ELSE tabs'[l.tab] = blockedUrl(l.url)]_vars

\* C15's case: under a snapshot with the keyword "Cats" and no creator, the
\* lookup of a checkYouTube has returned a video whose title holds "cats";
\* the reply allows and no redirect was asked for.
C15_Witness ==
    /\ configId # Null /\ config # NoConfig
    /\ config.youtubeCreators = <<>>
    /\ config.youtubeKeywords = <<KwCats>>
    /\ reply.type = "checkYouTube"
    /\ reply.shouldCheck /\ reply.allowed
    /\ outbox = {}
    /\ tabs["t1"] = UYtWatch

\* the globals as the profile holds them, at the present time
Persisted == GlobalsOf(storage.configId, storage.config, storage.lastSyncTime, now)

\* C16: every step in which the navigation hook decides is taken with the
\* load completed and with the identity, the snapshot and the sync time of
\* the profile in memory; the tab is redirected exactly when the persisted
\* policy blocks the URL, so with an identity in the profile no URL is
\* blocked for want of an identity in memory.
C16_HookWaitsForLoad ==
    [][\A t \in Tabs, u \in StartUrls :
          onBeforeNavigate(t, u) =>
              /\ storageLoaded
              /\ configId = storage.configId
              /\ config = storage.config
              /\ lastSyncTime = storage.lastSyncTime
              /\ (tabs'[t] = blockedUrl(u)) = shouldBlock(Persisted, u)]_vars

\* C16's case: the worker was started on a profile with an open session,
\* the load has completed, and the navigation to other.com that was
\* decided then, within the first tick, was let through on the loaded
\* session.
C16_Witness ==
    /\ storageLoaded
    /\ now = TickMs
    /\ configId = "id1" /\ config = storage.config
    /\ SessionOpen(config) /\ isFreeTime(Globals)
    /\ ~matchesWhitelist(Globals, UOther)
    /\ tabs["t1"] = UOther

\* tab t shows a URL that the policy of the profile blocks at this time
TabOverdue(t) == storage.configId # Null /\ shouldBlock(Persisted, tabs[t])

\* C17: a tab that shows a URL the policy of the profile blocks (the
\* session's budget has drained to 0, the temporary disable has expired)
\* does not stay so: an alarm redirects it, whether or not a sync succeeds,
\* unless the policy or the tab's URL changes first.
C17_TimerEnforces == \A t \in Tabs : TabOverdue(t) ~> ~TabOverdue(t)

\* C17's failing case: a tab went to other.com during the session, the
\* budget has since drained to 0, and the worker, stopped in between, has
\* been started again with its load still pending.
C17_Witness ==
    /\ ~storageLoaded /\ loadData # NoLoad
    /\ storage.configId # Null
    /\ SessionOpen(storage.config)
    /\ getLocalRemainingSeconds(Persisted) = 0
    /\ tabs["t1"] = UOther
    /\ shouldBlock(Persisted, UOther)

\* C20 as stated: the start of the worker attempts a refresh: the step that
\* completes loadFromStorage with an identity and a server address leaves a
\* fetch in flight.
C20_RefreshAtStart ==
    [][loadFromStorage /\ canSync(configId', apiUrl') =>
          BagCardinality(syncs') > 0]_vars

\* C20, amended: the start of the worker only loads the profile: neither
\* the start nor the step that completes the load leaves a fetch in flight,
\* the load puts in memory what it read, and a fetch is issued only by the
\* sync alarm of a loaded worker.
C20_StartLoadsOnly ==
    [][/\ (Restart \/ loadFromStorage) => syncs' = EmptyBag
       /\ loadFromStorage =>
             /\ configId' = loadData.configId
             /\ config' = loadData.config
             /\ lastSyncTime' = loadData.lastSyncTime
       /\ BagCardinality(syncs') > BagCardinality(syncs) =>
             syncAlarm /\ storageLoaded]_vars

\* C20's case: the worker has loaded a profile whose allow-list holds
\* example.com and whose sync is a tick old; no fetch is in flight, and the
\* tab that went to example.com was decided on that snapshot.
C20_Witness ==
    /\ storageLoaded
    /\ syncs = EmptyBag
    /\ configId = "id1" /\ config # NoConfig
    /\ ~isFreeTime(Globals)
    /\ matchesWhitelist(Globals, UExample)
    /\ lastSyncTime = TickMs /\ now > TickMs
    /\ tabs["t1"] = UExample

\* the blocked pages of the URLs
BlockedSurface == {blockedUrl(u) : u \in Urls}

\* in the schedule variant handleTab leaves a tab on the block page, under
\* every setting and at every time
BlockPageStays ==
    \A u \in Urls, st \in AllSettings, t \in Times :
        handleTabResult(blockPage(u), st, t) = blockPage(u)

C19_LastResponseWins ==
    [][\A r \in BagToSet(syncs), s \in ServerSnapshots :
          (/\ syncOk(r, s)
           /\ BagCardinality(syncs) > 1 \/ config \in ServerSnapshots \ {s}) =>
              /\ \A f \in DOMAIN s : config'[f] = s[f]
              /\ DOMAIN config' = DOMAIN s
              /\ lastSyncTime' = now
              /\ storage'.config = config'
              /\ storage'.lastSyncTime = lastSyncTime']_vars

\* C19's case: two refreshes overlap; the response to refreshConfig has just
\* completed while the other fetch is still in flight, and cache and
\* storage hold its body, the one with the empty allow-list, and its time.
C19_Witness ==
    /\ BagCardinality(syncs) = 1
    /\ reply.type = "refreshConfig"
    /\ reply.config = config
    /\ config \in ServerSnapshots /\ config.whitelist = <<>>
    /\ lastSyncTime = now
    /\ storage.config = config /\ storage.lastSyncTime = lastSyncTime
    /\ storageLoaded

\* C21: in storage the snapshot and the sync time are present together or
\* absent together, whatever syncs, 404s, clearConfig messages and restarts
\* have happened.
C21_PersistedPair ==
    (storage.config = NoConfig) <=> (storage.lastSyncTime = NoTime)

\* C21's failing case: clearConfig has just replied on a client that had
\* synced; storage holds no identity and no snapshot, and still the time
\* of that sync.
C21_Witness ==
    /\ reply.type = "clearConfig"
    /\ storage.configId = Null
    /\ storage.config = NoConfig
    /\ storage.lastSyncTime # NoTime
    /\ lastSyncTime = storage.lastSyncTime

DecidedBlock(u) ==
    \/ shouldBlock(Globals, u)
    \/ /\ isYouTubeVideo(u)
       /\ checkYouTubeEntry(Globals, u).type = "lookup"
       /\ \A info \in Infos \cup {NoInfo} :
             ~checkYouTubeVerdict(Globals, u, info).allowed

\* C23: with an identity set and no snapshot cached, the decision is Block
\* for every URL that is not a page of the browser or of the extension,
\* the content platform's home, channel and watch pages included.
C23_NoSnapshotFailClosed ==
    (configId # Null /\ config = NoConfig) =>
        \A u \in Urls \ InternalUrls : DecidedBlock(u)

\* C23's failing case: an identity and no snapshot; the tab went to the
\* content platform's home page and the hook let it through, while
\* other.com is blocked.
C23_Witness ==
    /\ configId # Null /\ config = NoConfig
    /\ tabs["t1"] = UYtHome
    /\ ~shouldBlock(Globals, UYtHome)
    /\ ~shouldBlock(Globals, UYtChannel)
    /\ shouldBlock(Globals, UOther)
    /\ DecidedBlock(UYtWatch)

\* the pages the content script runs in (manifest: youtube.com)
OnPlatform(u) == Hostname(u) \in {<<"www.", "youtube.com">>, <<"youtube.com">>}

\* C24: on a client with no identity, in memory or in the profile, every
\* entry point blocks: shouldBlock is true for every URL that is not a page
\* of the browser or of the extension, a run of checkOpenTabs redirects
\* every tab left on such a URL, and the content script's checkUrl, run in
\* a tab left on a page of the platform that is not one of its allowed
\* pages, sends a message that leads to a block.
C24_UnconfiguredAllPaths ==
    (storageLoaded /\ configId = Null /\ storage.configId = Null) =>
        /\ \A u \in StartUrls : shouldBlock(Globals, u)
        /\ \A t \in Tabs :
              tabs[t] \in StartUrls =>
                  /\ checkOpenTabs(Globals, tabs).tabs[t] = blockedUrl(tabs[t])
                  /\ (OnPlatform(tabs[t]) /\ ~isAllowedPage(tabs[t])) =>
                        checkUrl(getStateReply(Globals, apiUrl), tabs[t]) # "none"

\* C24's failing case: the tab went to other.com on a paired client, a 404
\* has since cleared the identity, and the tab is still there; the hook
\* would block that URL, a run of checkOpenTabs leaves the tab alone.
C24_Witness ==
    /\ storageLoaded /\ apiUrl # Null
    /\ configId = Null /\ storage.configId = Null
    /\ storage.config = NoConfig /\ storage.lastSyncTime = NoTime
    /\ tabs["t1"] = UOther
    /\ shouldBlock(Globals, UOther)
    /\ checkOpenTabs(Globals, tabs).tabs = tabs

\* C25: while the client is configured, no step takes a tab that shows a URL
\* matching an allow-list pattern to the blocked page of that URL: not the
\* navigation hook, not the timer's re-evaluation and the lookup it starts
\* for a watch page, not the blockPage message of the content script.
C25_AllowListedNeverRedirected ==
    [][\A t \in Tabs :
          (configId # Null /\ config # NoConfig /\ matchesWhitelist(Globals, tabs[t])) =>
              tabs'[t] # blockedUrl(tabs[t])]_vars

\* C25's case: the snapshot allows the shorts pages, no free time is in
\* force, the tab went to a shorts page, the content script found it to be
\* a blocked page and sent blockPage, and the handler of that message has
\* just redirected the tab.
C25_Witness ==
    /\ configId # Null /\ config # NoConfig
    /\ ~isFreeTime(Globals)
    /\ matchesWhitelist(Globals, UYtShorts)
    /\ ~shouldBlock(Globals, UYtShorts)
    /\ reply.type = "blockPage"
    /\ tabs["t1"] = blockedUrl(UYtShorts)
    /\ lookups = <<>> /\ outbox = {}

\* the timer's re-evaluation redirects a tab that shows u, at once or when
\* the lookup it starts for u ends with info
TimerRedirects(u, info) ==
    LET r == checkOpenTabs(Globals, [t \in Tabs |-> u])
    IN  \/ \E t \in Tabs : r.tabs[t] = blockedUrl(u)
        \/ r.pending # <<>> /\ videoBlocked(Globals, info)

\* the evaluation of a navigation blocks u: the hook redirects, or u is a
\* watch page and the reply of checkYouTube, with info as the result of its
\* lookup, makes the content script ask for the redirect
NavigationBlocks(u, info) ==
    \/ shouldBlock(Globals, u)
    \/ /\ isYouTubeVideo(u)
       /\ LET e == checkYouTubeEntry(Globals, u)
              r == IF e.type = "lookup" THEN checkYouTubeVerdict(Globals, u, info) ELSE e
          IN  r.shouldCheck /\ ~r.allowed

\* C26: for every URL and every result of the content lookup, under the
\* identity, snapshot, sync time and clock of the state, the timer's
\* re-evaluation redirects exactly when the evaluation of a navigation
\* blocks.
C26_EntryPointsAgree ==
    \A u \in Urls, info \in Infos \cup {NoInfo} :
        TimerRedirects(u, info) <=> NavigationBlocks(u, info)

\* C26's case: a configured client outside free time whose allow-list has
\* the watch page; the hook let the tab go there, checkYouTube answers that
\* nothing is to be checked, and the lookup of the timer's re-evaluation has
\* ended and redirected the tab.
C26_Witness ==
    /\ configId # Null /\ config # NoConfig
    /\ ~isFreeTime(Globals)
    /\ matchesWhitelist(Globals, UYtWatch)
    /\ ~shouldBlock(Globals, UYtWatch)
    /\ ~checkYouTubeEntry(Globals, UYtWatch).shouldCheck
    /\ lookups = <<>> /\ outbox = {}
    /\ reply = NoReply
    /\ tabs["t1"] = blockedUrl(UYtWatch)
    /\ \E info \in Infos \cup {NoInfo} :
           TimerRedirects(UYtWatch, info) /\ ~NavigationBlocks(UYtWatch, info)

\* the normalized name or URL of the author of info contains the normalized
\* entry c (an equal one included), or is contained in it
AuthorContains(info, c) ==
    \/ Includes(normalizeCreator(info.authorName), normalizeCreator(c))
    \/ Includes(normalizeCreator(info.authorUrl), normalizeCreator(c))
AuthorWithin(info, c) ==
    \/ Includes(normalizeCreator(c), normalizeCreator(info.authorName))
    \/ Includes(normalizeCreator(c), normalizeCreator(info.authorUrl))

\* if the step ends the lookup of checkYouTube, or that of checkOpenTabs
\* for a tab still on the watch page, with info, then it allows exactly
\* when `allowed` holds
CreatorVerdictIs(i, info, allowed) ==
    lookupDone(i, info) =>
        IF lookups[i].kind = "checkYouTube"
        THEN reply'.allowed <=> allowed
        ELSE tabs[lookups[i].tab] = lookups[i].url =>
                 ((tabs'[lookups[i].tab] = blockedUrl(lookups[i].url)) <=> ~allowed)

\* C27 as stated: with no keyword list, a lookup that returns the video's
\* info ends in Allow exactly when the normalized author name or URL
\* equals, contains or is contained in a normalized entry of the creator
\* list.
C27_BidirectionalMatch ==
    [][\A i \in 1..Len(lookups), info \in Infos :
          CreatorVerdictIs(i, info,
              \E c \in CreatorsOf(config) :
                  AuthorContains(info, c) \/ AuthorWithin(info, c))]_vars

\* C27: with no keyword list, a lookup that returns the video's info ends
\* in Allow exactly when the normalized author name or URL equals or
\* contains a normalized entry of the creator list; an entry that is longer
\* than the author's identity and contains it does not match.
C27_EntryWithinAuthor ==
    [][\A i \in 1..Len(lookups), info \in Infos :
          /\ CreatorVerdictIs(i, info,
                 \E c \in CreatorsOf(config) : AuthorContains(info, c))
          /\ (lookupDone(i, info) /\ lookups[i].kind = "checkYouTube"
                /\ config.youtubeCreators = <<CrLong>>) => ~reply'.allowed]_vars

\* C27's case: the creator list has only a part of Jane Doe's handle, the
\* lookup of checkYouTube returned her video, whose normalized author name
\* and URL contain the entry and do not equal it, and the reply allows.
C27_Witness ==
    /\ config # NoConfig
    /\ config.youtubeCreators = <<CrPartial>>
    /\ config.youtubeKeywords = <<>>
    /\ reply.type = "checkYouTube" /\ reply.shouldCheck /\ reply.allowed
    /\ tabs["t1"] = UYtWatch
    /\ AuthorContains(InfoLecture, CrPartial)
    /\ normalizeCreator(InfoLecture.authorUrl) # normalizeCreator(CrPartial)
    /\ normalizeCreator(InfoLecture.authorName) # normalizeCreator(CrPartial)
    /\ AuthorWithin(InfoLecture, CrLong)
    /\ ~AuthorContains(InfoLecture, CrLong)

\* C28: a Block verdict of the secondary check that was computed for a URL
\* the tab no longer shows redirects nothing: the blockPage message the
\* content script sends after checkUrl leaves such a tab where it is, and
\* so does the end of a lookup of checkOpenTabs.
C28_StaleVerdictDiscarded ==
    [][/\ \A m \in outbox :
             (onBlockPage(m) /\ tabs[m.tab] # m.url) => tabs'[m.tab] = tabs[m.tab]
       /\ \A i \in 1..Len(lookups), info \in Infos \cup {NoInfo} :
             (/\ lookupDone(i, info)
              /\ lookups[i].kind = "checkOpenTabs"
              /\ tabs[lookups[i].tab] # lookups[i].url) =>
                 tabs'[lookups[i].tab] = tabs[lookups[i].tab]]_vars

\* C28's case: the content script asked for the check of the watch page,
\* the page went on to the platform's home page, which is allowed, while
\* the lookup was running, and the lookup has just ended in Block: the
\* blockPage message for the watch page is on its way to a tab that shows
\* the home page.
C28_Witness ==
    /\ configId # Null /\ config # NoConfig
    /\ ~isFreeTime(Globals)
    /\ tabs["t1"] = UYtHome
    /\ ~shouldBlock(Globals, UYtHome)
    /\ reply.type = "checkYouTube" /\ reply.shouldCheck /\ ~reply.allowed
    /\ outbox = {[tab |-> "t1", url |-> UYtWatch]}
    /\ lookups = <<>>

\* invocation r of syncConfig returns to its caller in this step: the
\* message's reply is sent, or the alarm's listener goes on to checkOpenTabs
\* with the globals the invocation has left
ReturnsToCaller(r) ==
    /\ syncs' = syncs (-) SetToBag({r})
    /\ IF r.caller = "alarm"
       THEN /\ tabs' = checkOpenTabs(GlobalsAfter, tabs).tabs
            /\ lookups' = lookups \o checkOpenTabs(GlobalsAfter, tabs).pending
            /\ reply' = NoReply
       ELSE /\ reply'.type = r.caller
            /\ reply'.success
            /\ r.caller = "refreshConfig" => reply'.config = config'

\* C29: whatever the server's answer, an invocation of syncConfig ends by
\* returning to its caller.  Every step in which a running worker's fetch
\* ends, however it ends, sends the reply of the refreshConfig or
\* setConfigId message that started it, or runs checkOpenTabs for the sync
\* alarm; and a message that finds nothing to fetch is answered at once.
C29_NoFailurePropagates ==
    [][/\ (BagCardinality(syncs') < BagCardinality(syncs) /\ ~Restart) =>
             \E r \in BagToSet(syncs) : ReturnsToCaller(r)
       /\ \A r \in BagToSet(syncs) : syncFail(r) => ReturnsToCaller(r)
       /\ (refreshConfig /\ syncs' = syncs) =>
             reply' = [type |-> "refreshConfig", success |-> TRUE, config |-> config]
       /\ \A id \in Ids : (setConfigId(id) /\ syncs' = syncs) =>
             reply' = [type |-> "setConfigId", success |-> TRUE]]_vars

\* C29's case: a refreshConfig of a paired client whose fetch failed (no
\* sync has succeeded at this time, the identity is still set): the reply
\* has been sent and carries the snapshot kept, and a tab is open on a page.
C29_Witness ==
    /\ storageLoaded
    /\ canSync(configId, apiUrl)
    /\ config # NoConfig
    /\ lastSyncTime < now
    /\ reply = [type |-> "refreshConfig", success |-> TRUE, config |-> config]
    /\ syncs = EmptyBag
    /\ tabs["t1"] = UOther

\* C30: in every reachable state a client without an identity has neither
\* a snapshot nor a sync time, in memory and in storage alike.
C30_AbsentTogether ==
    /\ configId = Null => (config = NoConfig /\ lastSyncTime = NoTime)
    /\ storage.configId = Null =>
          (storage.config = NoConfig /\ storage.lastSyncTime = NoTime)

\* C30's case: a refresh was in flight when the identity was removed, and
\* its OK answer has just been installed: the worker and the profile hold a
\* snapshot and its sync time, and no identity.
C30_Witness ==
    /\ storageLoaded
    /\ configId = Null /\ storage.configId = Null
    /\ config \in ServerSnapshots /\ storage.config = config
    /\ lastSyncTime = now /\ storage.lastSyncTime = now
    /\ reply.type \in {"setConfigId", "refreshConfig"}
    /\ syncs = EmptyBag

\* C31: the answer to a fetch that was issued for another identity than the
\* current one, which setConfigId or clearConfig has set and persisted
\* since, changes nothing: an OK answer is not installed as the
\* snapshot, in memory or in storage, and a 404 does not clear the identity.
C31_SnapshotOfCurrentIdentity ==
    [][\A r \in BagToSet(syncs) :
          (r.id # configId /\ storage.configId = configId) =>
              /\ \A s \in ServerSnapshots :
                     syncOk(r, s) => (config' = config /\ storage'.config = storage.config)
              /\ syncNotFound(r) =>
                     (configId' = configId /\ storage'.configId = storage.configId)]_vars

\* C31's case: a fetch issued for id1 is in flight, setConfigId has since
\* made id2 the identity in memory and in storage, and no snapshot of id2
\* has been obtained.
C31_Witness ==
    /\ storageLoaded
    /\ configId = "id2" /\ storage.configId = "id2"
    /\ config = NoConfig /\ storage.config = NoConfig
    /\ \E r \in BagToSet(syncs) : r.id = "id1"
    /\ \E r \in BagToSet(syncs) : r.id = "id2" /\ r.caller = "setConfigId"

\* C32: no step takes a tab of a configured client to the blocked page
\* while free time is in force in the state the step ends in; in particular the end of a lookup
\* that was started before a sync brought the free time redirects nothing.
C32_NoRedirectInFreeTime ==
    [][\A t \in Tabs :
          (configId' # Null /\ tabs'[t] # tabs[t] /\ tabs'[t] \in BlockedSurface) =>
              ~isFreeTime(GlobalsAfter)]_vars

\* C32's case: the timer's re-evaluation has started the lookup for a tab
\* on the watch page, and the sync that completed since, at this time, has
\* brought a snapshot under which free time is in force; the lookup is
\* still in flight.
C32_Witness ==
    /\ storageLoaded
    /\ configId # Null /\ config # NoConfig
    /\ isFreeTime(Globals)
    /\ lastSyncTime = now /\ now > TickMs
    /\ tabs["t1"] = UYtWatch
    /\ Len(lookups) = 1
    /\ lookups[1].kind = "checkOpenTabs" /\ lookups[1].url = UYtWatch
    /\ syncs = EmptyBag

\* C33: under a snapshot whose freeTimeStartedAt is neither null nor
\* undefined, and with no temporary disable in force, isFreeTime holds
\* exactly when getLocalRemainingSeconds is positive; so a getState reply
\* shows remaining session time only when free time is in force.
C33_BudgetViewsAgree ==
    /\ (/\ config # NoConfig
        /\ ~isTemporarilyDisabled(Globals)
        /\ config.freeTimeStartedAt \notin {Null, Undefined}) =>
           (isFreeTime(Globals) <=> getLocalRemainingSeconds(Globals) > 0)
    /\ (/\ reply.type = "getState"
        /\ reply.config # NoConfig
        /\ ~reply.isTemporarilyDisabled
        /\ reply.config.freeTimeStartedAt \notin {Null, Undefined}) =>
           (reply.isFreeTime <=> reply.localRemainingSeconds > 0)

\* C33's case: the snapshot's freeTimeStartedAt is the empty string, no
\* temporary disable is in force, the budget of the snapshot has been used
\* up since the sync; getState has just reported that free time is not in
\* force and that session time remains, and navigation is blocked.
C33_Witness ==
    /\ config # NoConfig
    /\ config.freeTimeStartedAt = ""
    /\ config.freeTimeRemaining > 0
    /\ lastSyncTime # NoTime
    /\ now - lastSyncTime >= config.freeTimeRemaining * MsPerSecond
    /\ reply.type = "getState"
    /\ ~reply.isTemporarilyDisabled
    /\ ~reply.isFreeTime
    /\ reply.localRemainingSeconds > 0
    /\ shouldBlock(Globals, UOther)
    /\ tabs["t1"] = blockedUrl(UOther)

\* C34: when the page in a tab has changed its URL to a page that is
\* neither home, search nor channel and the content script has not yet
\* seen the change, then the script's checkUrl is run for that URL, or the
\* tab leaves it; also when a check for the URL before is in flight.
C34_NoUrlChangeLost ==
    \A t \in Tabs, u \in MonitorUrls :
        (/\ ~isAllowedPage(u)
         /\ tabs[t] = u
         /\ monitor[t].lastUrl # u) ~>
            (monitor[t].url = u \/ tabs[t] # u)

\* C34's case: the script's check of one watch page waits for its lookup,
\* the page has gone on to another watch page, and the script has noted the
\* new URL as lastUrl without starting a check for it.
C34_Witness ==
    /\ configId # Null /\ ~isFreeTime(Globals)
    /\ tabs["t1"] = UYtWatch2
    /\ monitor["t1"] = Monitor(UYtWatch2, "checkYouTube", UYtWatch)
    /\ Len(lookups) = 1
    /\ lookups[1].kind = "checkYouTube" /\ lookups[1].url = UYtWatch

BlankUntil == 0

\* the settings once the disableUntil request of a blank unlock is stored
AfterBlankUnlock(st) == [st EXCEPT !.manualDisabledUntil = untilStored(BlankUntil)]

\* C36: in the schedule variant, once the disableUntil request of an unlock
\* with a blank duration is stored, shouldBlockUrl is false for every URL
\* at the present and at every later time, as long as the settings stay.
C36_BlankUnlockDisables ==
    \A u \in Urls, t \in Times :
        t >= now => ~shouldBlockUrl(u, AfterBlankUnlock(settings), t)

\* C36's case: enforcement is on, the schedule covers the present time, the
\* stored manualDisabledUntil is what a blank unlock stores, and handleTab
\* has redirected a tab that went to a site no pattern allows.
C36_Witness ==
    /\ settings.enabled
    /\ settings.manualDisabledUntil = untilStored(BlankUntil)
    /\ AfterBlankUnlock(settings) = settings
    /\ shouldBlockUrl(UOther, settings, now)
    /\ schedTab = blockPage(UOther)

====
